---- MODULE Spec2Model ----
(***************************************************************************)
(* Matrix-completion engine of netflix-recommendation-engine: the imputers *)
(* (MeanImputationBaseline, EMRecommender, KNNRecommender,                 *)
(* KNNCollaborativeRecommender, MatrixFactorizationRecommender) and the    *)
(* evaluation harness (ModelEvaluator).                                    *)
(*                                                                         *)
(* Numbers.  A float is modelled as an exact rational <<n, d>> in lowest   *)
(* terms with d > 0; NaN is <<0, 0>>.  A matrix is a sequence of rows, a   *)
(* row a sequence of numbers.  None (an attribute __init__ sets to None)   *)
(* is the empty sequence.                                                  *)
(***************************************************************************)
EXTENDS Integers, Sequences, FiniteSets, TLC

\* ------------------------------------------------------------------ bounds
MaxRows == 3
MaxCols == 2
MaxCells == 4

\* ------------------------------------------------------------ float model
None == <<>>
NaN == <<0, 0>>

Abs(a) == IF a < 0 THEN -a ELSE a

RECURSIVE GCD(_, _)
GCD(a, b) == IF b = 0 THEN a ELSE GCD(b, a % b)

\* n/d in lowest terms, d # 0
Rat(n, d) ==
    LET s == IF d < 0 THEN -1 ELSE 1
        g == GCD(Abs(n), Abs(d))
    IN  <<(s * n) \div g, (s * d) \div g>>

Int2Rat(k) == <<k, 1>>

isnan(x) == x[2] = 0

\* IEEE arithmetic: any NaN operand gives NaN
Add(x, y) == IF isnan(x) \/ isnan(y) THEN NaN
             ELSE Rat(x[1] * y[2] + y[1] * x[2], x[2] * y[2])
Sub(x, y) == IF isnan(x) \/ isnan(y) THEN NaN
             ELSE Rat(x[1] * y[2] - y[1] * x[2], x[2] * y[2])
Mul(x, y) == IF isnan(x) \/ isnan(y) THEN NaN
             ELSE Rat(x[1] * y[1], x[2] * y[2])
\* x / k for an integer count k; 0/0 is NaN (np.mean of an empty slice)
DivInt(x, k) == IF isnan(x) \/ k = 0 THEN NaN ELSE Rat(x[1], x[2] * k)
Less(x, y) == x[1] * y[2] < y[1] * x[2]
AbsRat(x) == <<Abs(x[1]), x[2]>>

\* rounding with a tie going up; NaN stays NaN
round_half_up(x) ==
    IF isnan(x) THEN NaN
    ELSE LET q == x[1] \div x[2]
             r == x[1] % x[2]
         IN  IF 2 * r < x[2] THEN Int2Rat(q) ELSE Int2Rat(q + 1)

\* np.round: round half to even; NaN stays NaN
round(x) ==
    IF isnan(x) THEN NaN
    ELSE LET q == x[1] \div x[2]
             r == x[1] % x[2]
         IN  IF 2 * r < x[2] THEN Int2Rat(q)
             ELSE IF 2 * r > x[2] THEN Int2Rat(q + 1)
             ELSE IF q % 2 = 0 THEN Int2Rat(q) ELSE Int2Rat(q + 1)

\* np.clip(x, lo, hi) for integers lo <= hi; NaN stays NaN
clip(x, lo, hi) ==
    IF isnan(x) THEN NaN
    ELSE IF Less(x, Int2Rat(lo)) THEN Int2Rat(lo)
    ELSE IF Less(Int2Rat(hi), x) THEN Int2Rat(hi)
    ELSE x

\* ---------------------------------------------------------- array helpers
\* the sum of a sequence, by halves
RECURSIVE SumSeq(_)
SumSeq(s) ==
    IF s = <<>> THEN Int2Rat(0)
    ELSE IF Len(s) = 1 THEN Add(s[1], Int2Rat(0))
    ELSE LET half == Len(s) \div 2
         IN  Add(SumSeq(SubSeq(s, 1, half)), SumSeq(SubSeq(s, half + 1, Len(s))))

\* the non-NaN entries of a sequence, in order:  v[~np.isnan(v)]
NotNaN(x) == ~isnan(x)
Observed(s) == SelectSeq(s, NotNaN)

\* np.nanmean of a sequence: mean of the non-NaN entries, NaN when none
nanmean(s) == LET o == Observed(s) IN DivInt(SumSeq(o), Len(o))

\* a sequence given by a function on 1..n, with its elements computed once
array(f) == f \o <<>>

n_rows(X) == Len(X)
n_cols(X) == Len(X[1])
Column(X, j) == array([i \in 1..Len(X) |-> X[i][j]])
RECURSIVE Flatten(_)
Flatten(X) == IF X = <<>> THEN <<>> ELSE X[1] \o Flatten(Tail(X))
Transpose(X) == array([j \in 1..n_cols(X) |-> array([i \in 1..n_rows(X) |-> X[i][j]])])

\* X + c, elementwise
AddScalar(X, c) ==
    array([i \in 1..n_rows(X) |-> array([j \in 1..Len(X[i]) |-> Add(X[i][j], c)])])
AnyNaN(s) == \E k \in 1..Len(s) : isnan(s[k])

\* numpy buffers.  A name bound to the caller's array itself: writes through it
\* are writes to the caller's array
view(X) == [base |-> "argument", cells |-> X]

\* X.copy(), and the array an sklearn transform (copy=True, the default) works
\* on: a new buffer that starts with the cells of X
copy(X) == [base |-> "new", cells |-> X]

\* the cells the caller's array X holds once an in-place write left `cells` in
\* buffer b
Written(X, b, cells) == IF b.base = "argument" THEN cells ELSE X

\* a call's outcome: a returned value, or the exception raised
\* and the attributes of the object after it
Return(s, v) == [status |-> "ok", value |-> v, self |-> s]
Raise(s, e) == [status |-> e, value |-> None, self |-> s]
\* outcome of a library call
Ok(v) == [status |-> "ok", value |-> v]
Err(e) == [status |-> e, value |-> None]

NotFitted == "ValueError: Model must be fitted before prediction"

\* ------------------------------------------------------------------ state
VARIABLES
    kind,           \* class of the imputer object under test
    X_incomplete,   \* observed matrix returned by the data loader
    X_complete,     \* ground-truth matrix returned by the data loader
    self,           \* attributes of the imputer object
    call,           \* the last call made on the imputer or evaluator and its outcome
    fit_returned,   \* history: a fit call on the object has returned
    X_pred,         \* the prediction a harness run holds
    metrics_history,\* ModelEvaluator.metrics_history
    pc,             \* position inside run_quick_test or run_baseline_comparison
    model_index,    \* position of the comparison loop in models.items()
    results,        \* the list results of run_baseline_comparison
    df_success,     \* what run_baseline_comparison returned
    files,          \* the artifacts under results/
    is_initialized, \* web_app: the readiness flag
    models,         \* web_app: the global dict of fitted imputers
    request,        \* web_app: per request thread, its position in the handler
    response,       \* web_app: the last response sent, with the request it answers
    data_file,      \* web_app: the matrix in data/netflix_incomplete.txt
    init_runs       \* history: how often the body of initialize_models was entered

runVars == <<model_index, results, df_success, files>>
servingVars == <<is_initialized, models, request, response, data_file, init_runs>>

vars == <<kind, X_incomplete, X_complete, self, call, fit_returned, X_pred,
          metrics_history, pc, runVars, servingVars>>

\* no comparison run has started
RunIdle ==
    /\ model_index = 0 /\ results = <<>> /\ df_success = None /\ files = None

\* the web application is not part of the execution
ServingIdle ==
    /\ is_initialized = FALSE /\ models = None
    /\ request = <<>> /\ response = None /\ data_file = None /\ init_runs = 0

Kinds == {"mean", "em", "knn_user", "knn_item", "nmf", "svd"}

\* constructor defaults
DEFAULT_K_CLUSTERS == 10
DEFAULT_K_NEIGHBORS == 30

\* attributes after __init__ of any of the imputer classes
NewObject ==
    [is_fitted |-> FALSE,
     global_mean |-> None, feature_means |-> None,
     temp_imputer |-> None, scaler |-> None, gmm |-> None, cluster_means |-> None,
     imputer |-> None,
     model |-> None, user_mean |-> None,
     n_components |-> 0, n_neighbors |-> 0]

\* ------------------------------------------------- MeanImputationBaseline
MeanImputationBaseline_fit(s, X) ==
    LET gm == nanmean(Flatten(X))
        fm == array([j \in 1..n_cols(X) |-> nanmean(Column(X, j))])
    IN  Return([s EXCEPT !.global_mean = gm,
                         !.feature_means = array([j \in 1..n_cols(X) |->
                                               IF isnan(fm[j]) THEN gm ELSE fm[j]]),
                         !.is_fitted = TRUE], None)

\* the column loop of predict: column j is indexed in feature_means only when
\* it holds a missing cell
MeanFillRaises(s, X) ==
    \E j \in 1..n_cols(X) : AnyNaN(Column(X, j)) /\ j > Len(s.feature_means)

MeanRoundClip(x) == clip(round(x), 1, 5)

\* predict without the is_fitted test
MeanImputationBaseline_predict_unguarded(s, X) ==
    IF MeanFillRaises(s, X) THEN Raise(s, "IndexError")
    ELSE LET filled == array([i \in 1..n_rows(X) |-> array([j \in 1..n_cols(X) |->
                           IF isnan(X[i][j]) THEN s.feature_means[j] ELSE X[i][j]])])
             glob(x) == IF isnan(x) THEN s.global_mean ELSE x
         IN  Return(s, array([i \in 1..n_rows(X) |-> array([j \in 1..n_cols(X) |->
                           MeanRoundClip(glob(filled[i][j]))])]))

\* predict that recomputes global_mean from its input
MeanImputationBaseline_predict_refitting(s, X) ==
    IF ~s.is_fitted THEN Raise(s, NotFitted)
    ELSE IF MeanFillRaises(s, X) THEN Raise(s, "IndexError")
    ELSE LET filled == array([i \in 1..n_rows(X) |-> array([j \in 1..n_cols(X) |->
                           IF isnan(X[i][j]) THEN s.feature_means[j] ELSE X[i][j]])])
             gm == nanmean(Flatten(X))
             glob(x) == IF isnan(x) THEN gm ELSE x
         IN  Return([s EXCEPT !.global_mean = gm],
                    array([i \in 1..n_rows(X) |-> array([j \in 1..n_cols(X) |->
                        MeanRoundClip(glob(filled[i][j]))])]))

MeanImputationBaseline_predict(s, X) ==
    IF ~s.is_fitted THEN Raise(s, NotFitted)
    ELSE IF MeanFillRaises(s, X) THEN Raise(s, "IndexError")
    ELSE LET filled == array([i \in 1..n_rows(X) |-> array([j \in 1..n_cols(X) |->
                           IF isnan(X[i][j]) THEN s.feature_means[j] ELSE X[i][j]])])
             glob(x) == IF isnan(x) THEN s.global_mean ELSE x
         IN  Return(s, array([i \in 1..n_rows(X) |-> array([j \in 1..n_cols(X) |->
                           MeanRoundClip(glob(filled[i][j]))])]))

\* --------------------------------------------------- sklearn SimpleImputer
\* statistics_ of strategy='most_frequent': the most frequent observed value
\* of a column, the smallest one on ties, NaN for a column without one
most_frequent(col) ==
    LET o == Observed(col)
        count(v) == Cardinality({k \in 1..Len(o) : o[k] = v})
        best == {o[k] : k \in 1..Len(o)}
        top == {v \in best : \A w \in best : count(w) <= count(v)}
    IN  IF o = <<>> THEN NaN
        ELSE CHOOSE v \in top : \A w \in top : ~Less(w, v)

RECURSIVE KeepValid(_, _)
KeepValid(row, stats) ==
    IF row = <<>> THEN <<>>
    ELSE (IF isnan(stats[1]) THEN <<>> ELSE <<row[1]>>)
         \o KeepValid(Tail(row), Tail(stats))

\* SimpleImputer.transform once the column count has been validated: missing
\* cells take the column's statistic, columns whose statistic is NaN are dropped
SimpleImputer_transform(stats, X) ==
    array([i \in 1..n_rows(X) |->
        KeepValid(array([j \in 1..n_cols(X) |->
                      IF isnan(X[i][j]) THEN stats[j] ELSE X[i][j]]), stats)])

\* ------------------------------------------------------------ EMRecommender
SqDist(a, b) ==
    SumSeq(array([k \in 1..Len(a) |-> Mul(Sub(a[k], b[k]), Sub(a[k], b[k]))]))

\* GaussianMixture.predict: the hard assignment of one row.  The numerical EM
\* iteration is not modelled: a fitted mixture is represented by its component
\* means and a row goes to the nearest one, the first on ties (argmax).
GaussianMixture_predict(gmm, row) ==
    CHOOSE c \in DOMAIN gmm :
        /\ \A e \in DOMAIN gmm : ~Less(SqDist(row, gmm[e]), SqDist(row, gmm[c]))
        /\ \A e \in DOMAIN gmm : e < c => Less(SqDist(row, gmm[c]), SqDist(row, gmm[e]))

\* the fitted mixtures fit_predict may end in: every choice of n_components
\* means among the training rows
GaussianMixture_fits(n_components, X_temp) ==
    IF n_rows(X_temp) < n_components \/ n_cols(X_temp) = 0 THEN {<<"unfitted">>}
    ELSE [0..(n_components - 1) -> {X_temp[i] : i \in 1..n_rows(X_temp)}]

\* X with every missing cell replaced by the most frequent value of its column
ImputedFill(X) ==
    array([i \in 1..n_rows(X) |-> array([j \in 1..n_cols(X) |->
        IF isnan(X[i][j]) THEN most_frequent(Column(X, j)) ELSE X[i][j]])])

\* cluster means taken over the most-frequent-filled copy of X
EMRecommender_compute_cluster_means_filled(X, cluster_labels, n_components) ==
    LET X_temp == ImputedFill(X)
    IN  [cluster_id \in 0..(n_components - 1) |->
            [feature_idx \in 1..n_cols(X) |->
                LET members == {i \in 1..n_rows(X) : cluster_labels[i] = cluster_id}
                    feature_values == array([i \in 1..n_rows(X) |->
                                          IF i \in members THEN X_temp[i][feature_idx]
                                          ELSE NaN])
                    valid_values == Observed(feature_values)
                IN  IF Len(valid_values) > 0
                    THEN DivInt(SumSeq(valid_values), Len(valid_values))
                    ELSE nanmean(Column(X, feature_idx))]]

EMRecommender_compute_cluster_means(X, cluster_labels, n_components) ==
    [cluster_id \in 0..(n_components - 1) |->
        [feature_idx \in 1..n_cols(X) |->
            LET members == {i \in 1..n_rows(X) : cluster_labels[i] = cluster_id}
                feature_values == array([i \in 1..n_rows(X) |->
                                      IF i \in members THEN X[i][feature_idx] ELSE NaN])
                valid_values == Observed(feature_values)
            IN  IF Len(valid_values) > 0
                THEN DivInt(SumSeq(valid_values), Len(valid_values))
                ELSE nanmean(Column(X, feature_idx))]]

\* a fit that lowers the number of components to the number of rows instead
\* of raising
EMRecommender_fit_capped(s, X, gmm) ==
    LET stats == array([j \in 1..n_cols(X) |-> most_frequent(Column(X, j))])
        X_temp == SimpleImputer_transform(stats, X)
        s1 == [s EXCEPT !.temp_imputer = stats, !.scaler = <<"unfitted">>]
        n == IF n_rows(X) < s.n_components THEN n_rows(X) ELSE s.n_components
        capped == [c \in 0..(n - 1) |-> X_temp[1]]
        labels == array([i \in 1..n_rows(X) |-> GaussianMixture_predict(capped, X_temp[i])])
    IN  IF n_cols(X_temp) = 0
        THEN Raise(s1, "ValueError: 0 feature(s)")
        ELSE Return([s1 EXCEPT
                     !.scaler = <<n_cols(X_temp)>>,
                     !.gmm = capped,
                     !.cluster_means = EMRecommender_compute_cluster_means(X, labels, n),
                     !.is_fitted = TRUE], None)

\* fit: the attributes are assigned in source order, so a raise leaves the
\* ones assigned before it; gmm is the fitted mixture fit_predict ends in
EMRecommender_fit(s, X, gmm) ==
    LET stats == array([j \in 1..n_cols(X) |-> most_frequent(Column(X, j))])
        X_temp == SimpleImputer_transform(stats, X)
        s1 == [s EXCEPT !.temp_imputer = stats, !.scaler = <<"unfitted">>]
        s2 == [s1 EXCEPT !.scaler = <<n_cols(X_temp)>>, !.gmm = <<"unfitted">>]
        labels == array([i \in 1..n_rows(X) |-> GaussianMixture_predict(gmm, X_temp[i])])
    IN  IF n_cols(X_temp) = 0
        THEN Raise(s1, "ValueError: 0 feature(s)")
        ELSE IF n_rows(X) < s.n_components
        THEN Raise(s2, "ValueError: n_samples < n_components")
        ELSE Return([s2 EXCEPT
                     !.gmm = gmm,
                     !.cluster_means =
                         EMRecommender_compute_cluster_means(X, labels, s.n_components),
                     !.is_fitted = TRUE], None)

EMRoundClip(x) == clip(round(x), 1, 5)

EMRecommender_predict(s, X) ==
    IF ~s.is_fitted THEN Raise(s, NotFitted)
    ELSE IF n_cols(X) # Len(s.temp_imputer) THEN Raise(s, "ValueError: n_features")
    ELSE LET X_temp == SimpleImputer_transform(s.temp_imputer, X)
             cluster_labels == array([i \in 1..n_rows(X) |->
                                   GaussianMixture_predict(s.gmm, X_temp[i])])
         IN  Return(s, array([i \in 1..n_rows(X) |-> array([j \in 1..n_cols(X) |->
                    IF isnan(X[i][j])
                    THEN EMRoundClip(s.cluster_means[cluster_labels[i]][j])
                    ELSE X[i][j]])]))

\* ------------------------------------------------------ sklearn KNNImputer
KNNImputer_fit(X) ==
    [fit_X |-> X,
     valid_mask |-> array([j \in 1..n_cols(X) |-> ~isnan(nanmean(Column(X, j)))])]

\* squared nan_euclidean distance: over the co-observed coordinates, scaled by
\* total / co-observed; NaN when no coordinate is co-observed
nan_euclidean(x, y) ==
    LET present == {k \in 1..Len(x) : ~isnan(x[k]) /\ ~isnan(y[k])}
        sq == SumSeq(array([k \in 1..Len(x) |->
                         IF k \in present THEN Mul(Sub(x[k], y[k]), Sub(x[k], y[k]))
                         ELSE Int2Rat(0)]))
    IN  IF present = {} THEN NaN
        ELSE DivInt(Mul(Int2Rat(Len(x)), sq), Cardinality(present))

\* the value KNNImputer gives the missing cell (row, col): the mean over the
\* n_neighbors nearest donors (rows of fit_X observed in col), donors at NaN
\* distance weighing 0; the column mean of fit_X when every donor is at NaN
\* distance.  Donors at equal distance are taken in index order.
KNNImputer_impute(imp, n_neighbors, row, col) ==
    LET fit_X == imp.fit_X
        donors == {d \in 1..n_rows(fit_X) : ~isnan(fit_X[d][col])}
        dists == array([d \in 1..n_rows(fit_X) |-> nan_euclidean(row, fit_X[d])])
        dist(d) == dists[d]
        before(e, d) ==
            \/ ~isnan(dist(e)) /\ isnan(dist(d))
            \/ ~isnan(dist(e)) /\ ~isnan(dist(d)) /\ Less(dist(e), dist(d))
            \/ (dist(e) = dist(d)) /\ e < d
        k == IF n_neighbors < Cardinality(donors) THEN n_neighbors
             ELSE Cardinality(donors)
        nearest == {d \in donors : Cardinality({e \in donors : before(e, d)}) < k}
        used == {d \in nearest : ~isnan(dist(d))}
        vals == array([d \in 1..n_rows(fit_X) |->
                          IF d \in used THEN fit_X[d][col] ELSE NaN])
    IN  IF \A d \in donors : isnan(dist(d))
        THEN nanmean(Column(fit_X, col))
        ELSE nanmean(vals)

\* transform: the column count is validated, missing cells of valid columns
\* are imputed, columns without an observed value in fit_X are dropped
KNNImputer_transform(imp, n_neighbors, X) ==
    IF n_cols(X) # n_cols(imp.fit_X) THEN Err("ValueError: n_features")
    ELSE Ok(array([i \in 1..n_rows(X) |->
                KeepValid(array([j \in 1..n_cols(X) |->
                              IF isnan(X[i][j]) /\ imp.valid_mask[j]
                              THEN KNNImputer_impute(imp, n_neighbors, X[i], j)
                              ELSE X[i][j]]),
                          array([j \in 1..n_cols(X) |->
                              IF imp.valid_mask[j] THEN Int2Rat(0) ELSE NaN]))]))

\* ----------------------------------------------------------- KNNRecommender
KNNRoundClip(x) == clip(round(x), 1, 5)

KNNRecommender_fit(s, X) ==
    Return([s EXCEPT !.imputer = KNNImputer_fit(X), !.is_fitted = TRUE], None)

KNNRecommender_predict(s, X) ==
    IF ~s.is_fitted THEN Raise(s, NotFitted)
    ELSE LET t == KNNImputer_transform(s.imputer, s.n_neighbors, X)
         IN  IF t.status # "ok" THEN Raise(s, t.status)
             ELSE Return(s, array([i \in 1..Len(t.value) |->
                                array([j \in 1..Len(t.value[i]) |->
                                    KNNRoundClip(t.value[i][j])])]))

\* ---------------------------------------------- KNNCollaborativeRecommender
\* X.T of a matrix; of an array with rows and no columns it has no rows
T(X) == IF X = <<>> THEN <<>> ELSE Transpose(X)

KNNCollaborativeRecommender_fit(s, X) ==
    Return([s EXCEPT !.imputer = KNNImputer_fit(T(X)), !.is_fitted = TRUE], None)

KNNCollaborativeRecommender_predict(s, X) ==
    IF ~s.is_fitted THEN Raise(s, NotFitted)
    ELSE LET t == KNNImputer_transform(s.imputer, s.n_neighbors, T(X))
             X_pred_t == T(t.value)
         IN  IF t.status # "ok" THEN Raise(s, t.status)
             ELSE Return(s, array([i \in 1..Len(X_pred_t) |->
                                array([j \in 1..Len(X_pred_t[i]) |->
                                    KNNRoundClip(X_pred_t[i][j])])]))

\* ------------------------------------------- MatrixFactorizationRecommender
RowMeans(X) == array([i \in 1..n_rows(X) |-> nanmean(X[i])])

MinOf(seq) == CHOOSE v \in {seq[k] : k \in 1..Len(seq)} :
                  \A k \in 1..Len(seq) : ~Less(seq[k], v)

\* the row means fit and predict centre with, and predict adds back:
\* np.nanmean(X_filled, axis=1, keepdims=True) of the dense copy
MFRowMeans(stats, X) == RowMeans(SimpleImputer_transform(stats, X))

\* dense fill, row centring and (nmf) the shift to positive values, as fit and
\* predict both compute them from the column means of the fitted temp_imputer
MFCentered(method, stats, X) ==
    LET X_filled == SimpleImputer_transform(stats, X)
        mu == MFRowMeans(stats, X)
        X_centered == array([i \in 1..n_rows(X) |-> array([j \in 1..n_cols(X_filled) |->
                          Sub(X_filled[i][j], mu[i])])])
        min_val == MinOf(Flatten(X_centered))
    IN  IF method = "nmf" /\ Less(min_val, Int2Rat(0))
        THEN AddScalar(X_centered, Add(Sub(Int2Rat(0), min_val), Rat(1, 10)))
        ELSE X_centered

\* fit.  The factorisation itself is not modelled numerically: the fitted model
\* is its feature count and the residual its reconstruction leaves, one of
\* Residuals.
MatrixFactorizationRecommender_fit(s, method, X, residual) ==
    LET stats == array([j \in 1..n_cols(X) |-> nanmean(Column(X, j))])
        X_filled == SimpleImputer_transform(stats, X)
        s1 == [s EXCEPT !.temp_imputer = stats, !.user_mean = RowMeans(X)]
    IN  IF n_cols(X_filled) = 0
        THEN Raise(IF method = "nmf" THEN s1 ELSE [s1 EXCEPT !.model = <<"unfitted">>],
                   "ValueError: empty array")
        ELSE Return([s1 EXCEPT
                     !.model = [n_features |-> n_cols(X_filled), residual |-> residual],
                     !.is_fitted = TRUE], None)

MFRoundClip(x) == clip(round(x), 1, 5)

MatrixFactorizationRecommender_predict(s, method, X) ==
    IF ~s.is_fitted THEN Raise(s, NotFitted)
    ELSE IF n_cols(X) # Len(s.temp_imputer) THEN Raise(s, "ValueError: n_features")
    ELSE LET X_filled == SimpleImputer_transform(s.temp_imputer, X)
             mu == MFRowMeans(s.temp_imputer, X)
             X_centered == MFCentered(method, s.temp_imputer, X)
             X_reconstructed == AddScalar(X_centered, s.model.residual)
             X_pred_mf == array([i \in 1..n_rows(X) |-> array([j \in 1..n_cols(X_filled) |->
                           Add(X_reconstructed[i][j], mu[i])])])
         IN  IF n_cols(X_filled) # n_cols(X) THEN Raise(s, "IndexError")
             ELSE Return(s, array([i \in 1..n_rows(X) |-> array([j \in 1..n_cols(X) |->
                             MFRoundClip(IF isnan(X[i][j]) THEN X_pred_mf[i][j]
                                         ELSE X[i][j])])]))

\* ------------------------------------------------------------------ inputs
\* cell values: missing, a rating, a half rating, a value above the scale
Values == {NaN, Int2Rat(2), Rat(7, 2), Int2Rat(7)}

Matrices(r, c) == [1..r -> [1..c -> Values]]

\* matrices the data loader can return
Shapes == {sh \in (1..MaxRows) \X (1..MaxCols) : sh[1] * sh[2] <= MaxCells}
Datasets == UNION {Matrices(sh[1], sh[2]) : sh \in Shapes}

\* user_vector.reshape(1, -1): one row, of any column count, each cell missing,
\* a rating or a half rating
UserValues == {NaN, Int2Rat(2), Rat(7, 2)}
UserMatrices == UNION {[1..1 -> [1..c -> UserValues]] : c \in 1..MaxCols}

\* hyperparameters the constructors are called with
NComponentsChoices == {2, DEFAULT_K_CLUSTERS}
NNeighborsChoices == {1, DEFAULT_K_NEIGHBORS}
\* residuals a fitted factorisation may leave
Residuals == {Int2Rat(0), Rat(-3, 2)}

Construct(k, nc, nn) ==
    [NewObject EXCEPT
     !.n_components = IF k = "em" THEN nc ELSE 0,
     !.n_neighbors = IF k \in {"knn_user", "knn_item"} THEN nn ELSE 0]

\* ------------------------------------------------ the argument after a call
\* X_pred of MeanImputationBaseline.predict after its column loop, which stops
\* at the first column it cannot index in feature_means
MeanLoopCells(s, X) ==
    array([i \in 1..n_rows(X) |-> array([j \in 1..n_cols(X) |->
        IF isnan(X[i][j])
              /\ ~\E c \in 1..j : AnyNaN(Column(X, c)) /\ c > Len(s.feature_means)
        THEN s.feature_means[j] ELSE X[i][j]])])

\* X_pred of MatrixFactorizationRecommender.predict: the reconstruction with the
\* row means added back
MFReconstruction(s, method, X) ==
    LET X_filled == SimpleImputer_transform(s.temp_imputer, X)
        mu == MFRowMeans(s.temp_imputer, X)
        X_centered == MFCentered(method, s.temp_imputer, X)
        X_reconstructed == AddScalar(X_centered, s.model.residual)
    IN  array([i \in 1..n_rows(X) |-> array([j \in 1..n_cols(X_filled) |->
            Add(X_reconstructed[i][j], mu[i])])])

\* the dense copy SimpleImputer.transform imputes in place, where it keeps
\* every column
ImputedInPlace(stats, X) ==
    LET X_filled == SimpleImputer_transform(stats, X)
    IN  IF n_cols(X_filled) = n_cols(X) THEN X_filled ELSE X

\* the cells of the array passed as X once fit has returned or raised: fit
\* reads X, and SimpleImputer.fit_transform imputes a copy of it
FitArgument(k, s, X) ==
    CASE k \in {"mean", "knn_user", "knn_item"} -> X
      [] k = "em" ->
           Written(X, copy(X), ImputedInPlace(
               array([j \in 1..n_cols(X) |-> most_frequent(Column(X, j))]), X))
      [] k \in {"nmf", "svd"} ->
           Written(X, copy(X), ImputedInPlace(
               array([j \in 1..n_cols(X) |-> nanmean(Column(X, j))]), X))

\* the cells of the array passed as X once predict has returned or raised, out
\* being the outcome of the call: every in-place write of predict goes to
\* X.copy() or to the copy an sklearn transform makes
PredictArgument(k, s, X, out) ==
    IF ~s.is_fitted THEN X
    ELSE CASE k = "mean" -> Written(X, copy(X), MeanLoopCells(s, X))
           [] k = "em" ->
                LET X1 == Written(X, copy(X), IF n_cols(X) = Len(s.temp_imputer)
                                               THEN ImputedInPlace(s.temp_imputer, X)
                                               ELSE X)
                IN  Written(X1, copy(X1), IF out.status = "ok" THEN out.value ELSE X1)
           [] k = "knn_user" ->
                Written(X, copy(X),
                        IF out.status = "ok" /\ Len(out.value) = Len(X) /\ Len(out.value[1]) = Len(X[1])
                        THEN KNNImputer_transform(s.imputer, s.n_neighbors, X).value
                        ELSE X)
           [] k = "knn_item" ->
                Written(X, copy(T(X)),
                        IF out.status = "ok" /\ Len(out.value) = Len(X) /\ Len(out.value[1]) = Len(X[1])
                        THEN T(KNNImputer_transform(s.imputer, s.n_neighbors, T(X)).value)
                        ELSE X)
           [] k \in {"nmf", "svd"} ->
                LET X1 == Written(X, copy(X), IF n_cols(X) = Len(s.temp_imputer)
                                               THEN ImputedInPlace(s.temp_imputer, X)
                                               ELSE X)
                IN  Written(X1, copy(X1),
                        IF out.status = "ok"
                        THEN array([i \in 1..n_rows(X1) |-> array([j \in 1..n_cols(X1) |->
                                 IF isnan(X1[i][j])
                                 THEN MFReconstruction(s, k, X1)[i][j]
                                 ELSE X1[i][j]])])
                        ELSE X1)

\* repeat: the call repeats the call before it; X_after: the cells of the
\* argument once the call is over
NoCall == [op |-> "init", X |-> None, X_after |-> None, status |-> "ok", value |-> None,
           repeat |-> FALSE]

\* ---------------------------------------------------------- imputer actions
Init ==
    /\ kind \in Kinds
    /\ X_incomplete \in Datasets
    /\ X_complete = None
    /\ \E nc \in NComponentsChoices, nn \in NNeighborsChoices :
           self = Construct(kind, nc, nn)
    /\ call = NoCall
    /\ fit_returned = FALSE
    /\ X_pred = None
    /\ RunIdle /\ ServingIdle
    /\ metrics_history = <<>>
    /\ pc = "lifecycle"

\* fit precedes the predict calls (constructed, fitted, then predicted)
\* a fit call with the given outcome, computed once
FitCall(outcome) ==
    /\ call.op # "predict"
    /\ \E out \in {outcome} :
        /\ self' = out.self
        /\ \E after \in {FitArgument(kind, self, X_incomplete)} :
            /\ call' = [op |-> "fit", X |-> X_incomplete, X_after |-> after,
                        status |-> out.status, value |-> None, repeat |-> FALSE]
            /\ X_incomplete' = after
        /\ fit_returned' = (fit_returned \/ out.status = "ok")
    /\ UNCHANGED <<kind, X_complete, X_pred, metrics_history, pc>>
    /\ UNCHANGED <<runVars, servingVars>>

\* a predict call on X with the given outcome, computed once
PredictCall(X, outcome) ==
    /\ \E out \in {outcome} :
        /\ self' = out.self
        /\ \E after \in {PredictArgument(kind, self, X, out)} :
            /\ call' = [op |-> "predict", X |-> X, X_after |-> after,
                        status |-> out.status, value |-> out.value,
                        repeat |-> call.op = "predict"]
            /\ X_incomplete' = IF X = X_incomplete THEN after ELSE X_incomplete
    /\ UNCHANGED <<kind, X_complete, fit_returned, X_pred, metrics_history, pc>>
    /\ UNCHANGED <<runVars, servingVars>>

\* model.predict(X_incomplete) of the comparison loop, or model.predict of a
\* one-row user matrix as the serving layer calls it.  After a predict the
\* caller repeats that call: predict leaves the object as it is, so a predict
\* of another matrix leads where it leads right after fit.
PredictInputs ==
    IF call.op = "predict" THEN {call.X} ELSE {X_incomplete} \cup UserMatrices

MeanFit ==
    /\ pc = "lifecycle" /\ kind = "mean"
    /\ FitCall(MeanImputationBaseline_fit(self, X_incomplete))

MeanPredict ==
    /\ pc = "lifecycle" /\ kind = "mean"
    /\ \E X \in PredictInputs : PredictCall(X, MeanImputationBaseline_predict(self, X))

EMFit ==
    /\ pc = "lifecycle" /\ kind = "em"
    /\ \E gmm \in GaussianMixture_fits(self.n_components,
              SimpleImputer_transform(
                  array([j \in 1..n_cols(X_incomplete) |->
                            most_frequent(Column(X_incomplete, j))]),
                  X_incomplete)) :
           FitCall(EMRecommender_fit(self, X_incomplete, gmm))

EMPredict ==
    /\ pc = "lifecycle" /\ kind = "em"
    /\ \E X \in PredictInputs : PredictCall(X, EMRecommender_predict(self, X))

KNNFit ==
    /\ pc = "lifecycle" /\ kind = "knn_user"
    /\ FitCall(KNNRecommender_fit(self, X_incomplete))

KNNPredict ==
    /\ pc = "lifecycle" /\ kind = "knn_user"
    /\ \E X \in PredictInputs : PredictCall(X, KNNRecommender_predict(self, X))

KNNCollaborativeFit ==
    /\ pc = "lifecycle" /\ kind = "knn_item"
    /\ FitCall(KNNCollaborativeRecommender_fit(self, X_incomplete))

KNNCollaborativePredict ==
    /\ pc = "lifecycle" /\ kind = "knn_item"
    /\ \E X \in PredictInputs :
           PredictCall(X, KNNCollaborativeRecommender_predict(self, X))

MFFit ==
    /\ pc = "lifecycle" /\ kind \in {"nmf", "svd"}
    /\ \E residual \in Residuals :
           FitCall(MatrixFactorizationRecommender_fit(self, kind, X_incomplete, residual))

MFPredict ==
    /\ pc = "lifecycle" /\ kind \in {"nmf", "svd"}
    /\ \E X \in PredictInputs :
           PredictCall(X, MatrixFactorizationRecommender_predict(self, kind, X))

Next ==
    \/ MeanFit \/ MeanPredict
    \/ EMFit \/ EMPredict
    \/ KNNFit \/ KNNPredict
    \/ KNNCollaborativeFit \/ KNNCollaborativePredict
    \/ MFFit \/ MFPredict

Spec == Init /\ [][Next]_vars

\* ----------------------------------------------------------- ModelEvaluator
\* a[mask]: the entries of a at the positions where mask holds, in order
RECURSIVE Compress(_, _)
Compress(a, mask) ==
    IF a = <<>> THEN <<>>
    ELSE (IF mask[1] THEN <<a[1]>> ELSE <<>>) \o Compress(Tail(a), Tail(mask))

\* sklearn.metrics on two equally long sequences without NaN, at least one long
mean_squared_error(t, p) ==
    DivInt(SumSeq(array([k \in 1..Len(t) |-> Mul(Sub(t[k], p[k]), Sub(t[k], p[k]))])),
           Len(t))
mean_absolute_error(t, p) ==
    DivInt(SumSeq(array([k \in 1..Len(t) |-> AbsRat(Sub(t[k], p[k]))])), Len(t))
\* r2_score: NaN below two samples; with a constant y_true, 1 for a perfect
\* prediction and 0 otherwise
r2_score(t, p) ==
    LET numerator == SumSeq(array([k \in 1..Len(t) |->
                                      Mul(Sub(t[k], p[k]), Sub(t[k], p[k]))]))
        avg == DivInt(SumSeq(t), Len(t))
        denominator == SumSeq(array([k \in 1..Len(t) |->
                                        Mul(Sub(t[k], avg), Sub(t[k], avg))]))
    IN  IF Len(t) < 2 THEN NaN
        ELSE IF denominator[1] # 0
        THEN Sub(Int2Rat(1), Rat(numerator[1] * denominator[2],
                                 numerator[2] * denominator[1]))
        ELSE IF numerator[1] = 0 THEN Int2Rat(1) ELSE Int2Rat(0)

\* np.sqrt of a rational, kept symbolic: the radicand and the index 2
sqrt(x) == <<x[1], x[2], 2>>

\* A.shape == B.shape for two matrices
SameShape(A, B) ==
    /\ Len(A) = Len(B)
    /\ \A i \in 1..Len(A) : Len(A[i]) = Len(B[i])

\* a mask that looks at y_true only
EvaluateMask_truth_only(ft, fp) == array([k \in 1..Len(ft) |-> ~isnan(ft[k])])

\* mask = ~(np.isnan(y_true) | np.isnan(y_pred)), on the flattened matrices
EvaluateMask(ft, fp) == array([k \in 1..Len(ft) |-> ~(isnan(ft[k]) \/ isnan(fp[k]))])

\* evaluate_model with metrics that give NaN on empty arrays instead of raising
ModelEvaluator_evaluate_model_silent(history, y_true, y_pred, model_name) ==
    LET ft == Flatten(y_true)
        fp == Flatten(y_pred)
        mask == EvaluateMask(ft, fp)
        y_true_clean == Compress(ft, mask)
        y_pred_clean == Compress(fp, mask)
        metrics == [model_name |-> model_name,
                    rmse |-> sqrt(mean_squared_error(y_true_clean, y_pred_clean)),
                    mae |-> mean_absolute_error(y_true_clean, y_pred_clean),
                    r2_score |-> r2_score(y_true_clean, y_pred_clean),
                    n_predictions |-> Len(y_true_clean)]
    IN  [status |-> "ok", value |-> metrics, history |-> Append(history, metrics)]

\* evaluate_model on two matrices of one shape: the outcome and the history
\* after it.  mean_squared_error raises on an empty array, before the append.
ModelEvaluator_evaluate_model(history, y_true, y_pred, model_name) ==
    LET ft == Flatten(y_true)
        fp == Flatten(y_pred)
        mask == EvaluateMask(ft, fp)
        y_true_clean == Compress(ft, mask)
        y_pred_clean == Compress(fp, mask)
        metrics == [model_name |-> model_name,
                    rmse |-> sqrt(mean_squared_error(y_true_clean, y_pred_clean)),
                    mae |-> mean_absolute_error(y_true_clean, y_pred_clean),
                    r2_score |-> r2_score(y_true_clean, y_pred_clean),
                    n_predictions |-> Len(y_true_clean)]
    IN  IF ~SameShape(y_true, y_pred)
        THEN [status |-> "IndexError: boolean index did not match", value |-> None,
              history |-> history]
        ELSE IF Len(y_true_clean) = 0
        THEN [status |-> "ValueError: Found array with 0 sample(s)", value |-> None,
              history |-> history]
        ELSE [status |-> "ok", value |-> metrics, history |-> Append(history, metrics)]

\* --------------------------------------------------- evaluation harness runs
MaxHistory == 2
MaxScored == 3

\* the test files of the baseline scenario
TestComplete ==
    << <<Int2Rat(5), Int2Rat(3), Int2Rat(2)>>,
       <<Int2Rat(3), Int2Rat(5), Int2Rat(4)>>,
       <<Int2Rat(4), Int2Rat(1), Int2Rat(4)>> >>
TestIncomplete ==
    << <<Int2Rat(5), Int2Rat(3), NaN>>,
       <<Int2Rat(3), Int2Rat(5), Int2Rat(4)>>,
       <<Int2Rat(4), NaN, Int2Rat(4)>> >>

\* other contents of the two files: one row each, of one length
TruthValues == {NaN, Int2Rat(2), Int2Rat(5)}
FileValues == {NaN, Int2Rat(1), Int2Rat(4)}
TestFiles ==
    {<<TestIncomplete, TestComplete>>} \cup
    UNION {[1..1 -> [1..c -> FileValues]] \X [1..1 -> [1..c -> TruthValues]] :
              c \in 1..MaxCols}

\* a ground truth and a prediction some imputer returned for it, of one shape
PredValues == {NaN, Int2Rat(4)}
Predictions ==
    UNION {[1..1 -> [1..c -> TruthValues]] \X [1..1 -> [1..c -> PredValues]] :
              c \in 1..MaxScored}

\* the predictions of further models for a one-row ground truth
NextPredictions(y_true) ==
    IF Len(y_true) = 1 THEN [1..1 -> [1..Len(y_true[1]) -> PredValues]] ELSE {}

\* run_quick_test about to fit its baseline on the loaded test data, or a
\* caller holding a ground truth and a prediction about to evaluate it
InitEval ==
    /\ kind = "mean"
    /\ RunIdle /\ ServingIdle
    /\ self = NewObject
    /\ call = NoCall
    /\ fit_returned = FALSE
    /\ metrics_history = <<>>
    /\ \/ /\ pc = "quick_test:fit"
          /\ \E f \in TestFiles : X_incomplete = f[1] /\ X_complete = f[2]
          /\ X_pred = None
       \/ /\ pc = "evaluate"
          /\ \E f \in Predictions : X_complete = f[1] /\ X_pred = f[2]
          /\ X_incomplete = None

\* baseline.fit(X_test_incomplete)
QuickTestFit ==
    /\ pc = "quick_test:fit"
    /\ LET out == MeanImputationBaseline_fit(self, X_incomplete)
       IN  /\ self' = out.self
           /\ call' = [op |-> "fit", X |-> X_incomplete,
                       X_after |-> FitArgument("mean", self, X_incomplete),
                       status |-> out.status, value |-> None, repeat |-> FALSE]
           /\ X_incomplete' = FitArgument("mean", self, X_incomplete)
           /\ fit_returned' = (out.status = "ok")
           /\ pc' = IF out.status = "ok" THEN "quick_test:predict" ELSE "quick_test:False"
    /\ UNCHANGED <<kind, X_complete, X_pred, metrics_history>>
    /\ UNCHANGED <<runVars, servingVars>>

\* X_pred = baseline.predict(X_test_incomplete)
QuickTestPredict ==
    /\ pc = "quick_test:predict"
    /\ LET out == MeanImputationBaseline_predict(self, X_incomplete)
       IN  /\ self' = out.self
           /\ call' = [op |-> "predict", X |-> X_incomplete,
                       X_after |-> PredictArgument("mean", self, X_incomplete, out),
                       status |-> out.status, value |-> out.value, repeat |-> FALSE]
           /\ X_incomplete' = PredictArgument("mean", self, X_incomplete, out)
           /\ X_pred' = out.value
           /\ pc' = IF out.status = "ok" THEN "quick_test:evaluate" ELSE "quick_test:False"
    /\ UNCHANGED <<kind, X_complete, fit_returned, metrics_history>>
    /\ UNCHANGED <<runVars, servingVars>>

EvaluateCall(y_pred, model_name, next_ok, next_raise) ==
    /\ Len(metrics_history) < MaxHistory
    /\ \E out \in {ModelEvaluator_evaluate_model(metrics_history, X_complete, y_pred,
                                                 model_name)} :
        /\ metrics_history' = out.history
        /\ call' = [op |-> "evaluate_model", X |-> <<X_complete, y_pred>>,
                    X_after |-> <<X_complete, y_pred>>,
                    status |-> out.status, value |-> out.value, repeat |-> FALSE]
        /\ X_pred' = y_pred
        /\ pc' = IF out.status = "ok" THEN next_ok ELSE next_raise
        /\ UNCHANGED <<kind, X_incomplete, X_complete, self, fit_returned>>
        /\ UNCHANGED <<runVars, servingVars>>

\* metrics = evaluator.evaluate_model(X_test_complete, X_pred, "Test_Baseline");
\* the except clause turns a raise into the result False
QuickTestEvaluate ==
    /\ pc = "quick_test:evaluate"
    /\ EvaluateCall(X_pred, "Test_Baseline", "quick_test:True", "quick_test:False")

\* evaluator.evaluate_model(X_complete, X_pred, name) of the comparison loop:
\* one evaluator scores, against one ground truth, the prediction held or the
\* prediction of a next model
Evaluate ==
    /\ pc \in {"evaluate", "quick_test:True"}
    /\ \E y_pred \in {X_pred} \cup NextPredictions(X_complete) :
           EvaluateCall(y_pred, "Mean Imputation", "evaluate", "evaluate")

NextEval == QuickTestFit \/ QuickTestPredict \/ QuickTestEvaluate \/ Evaluate

SpecEval == InitEval /\ [][NextEval]_vars


\* -------------------------------------------------- run_baseline_comparison
DEFAULT_N_COMPONENTS == 50

\* float('inf') and -float('inf')
Inf == <<1, 0>>
NegInf == <<-1, 0>>

\* time.time() - start_time: some elapsed time, kept symbolic
Elapsed == <<"seconds">>

\* models: the configured imputers, in the order of models.items()
RunModels ==
    << [name |-> "Mean Imputation", kind |-> "mean"],
       [name |-> "EM Clustering", kind |-> "em"],
       [name |-> "KNN User-based", kind |-> "knn_user"],
       [name |-> "KNN Item-based", kind |-> "knn_item"],
       [name |-> "Matrix Factorization (NMF)", kind |-> "nmf"],
       [name |-> "Matrix Factorization (SVD)", kind |-> "svd"] >>

\* the outcomes model.fit(X) may have for an object s of class k
ModelFit(k, s, X) ==
    CASE k = "mean" -> {MeanImputationBaseline_fit(s, X)}
      [] k = "em" ->
           {EMRecommender_fit(s, X, gmm) :
               gmm \in GaussianMixture_fits(s.n_components,
                           SimpleImputer_transform(
                               array([j \in 1..n_cols(X) |-> most_frequent(Column(X, j))]),
                               X))}
      [] k = "knn_user" -> {KNNRecommender_fit(s, X)}
      [] k = "knn_item" -> {KNNCollaborativeRecommender_fit(s, X)}
      [] k \in {"nmf", "svd"} ->
           {MatrixFactorizationRecommender_fit(s, k, X, residual) : residual \in Residuals}

\* the outcome of model.predict(X) for an object s of class k
ModelPredict(k, s, X) ==
    CASE k = "mean" -> MeanImputationBaseline_predict(s, X)
      [] k = "em" -> EMRecommender_predict(s, X)
      [] k = "knn_user" -> KNNRecommender_predict(s, X)
      [] k = "knn_item" -> KNNCollaborativeRecommender_predict(s, X)
      [] k \in {"nmf", "svd"} -> MatrixFactorizationRecommender_predict(s, k, X)

\* model.get_model_info() that reports its name and a count under the keys of the metrics
get_model_info_model_name(k, s) ==
    [model_name |-> "Imputation Recommender", n_predictions |-> 0, method |-> k]

\* model.get_model_info() of a fitted object s of class k
get_model_info(k, s) ==
    CASE k = "mean" ->
           [name |-> "Mean Imputation Baseline", global_mean |-> s.global_mean,
            method |-> "feature_mean_imputation"]
      [] k = "em" ->
           [name |-> "EM Clustering Recommender", n_components |-> s.n_components,
            converged |-> <<"converged_">>, n_iter |-> <<"n_iter_">>]
      [] k = "knn_user" ->
           [name |-> "KNN Imputation Recommender", n_neighbors |-> s.n_neighbors,
            weights |-> "uniform"]
      [] k = "knn_item" ->
           [name |-> "Item-based KNN Collaborative Recommender",
            n_neighbors |-> s.n_neighbors, weights |-> "uniform"]
      [] k = "nmf" ->
           [name |-> "Matrix Factorization (NMF)", n_components |-> DEFAULT_N_COMPONENTS,
            method |-> "nmf", reconstruction_error |-> <<"reconstruction_err_">>]
      [] k = "svd" ->
           [name |-> "Matrix Factorization (SVD)", n_components |-> DEFAULT_N_COMPONENTS,
            method |-> "svd"]

\* the outcomes of model.get_model_info() inside the inner try: the dict, or an
\* exception raised while the call runs
ModelInfoOutcomes(k, s) == {Ok(get_model_info(k, s)), Err("Exception")}

\* the calls of get_model_info that raised so far in a run: the successful
\* records without model info
MaxInfoRaises == 1

InfoRaises(rs) ==
    Cardinality({i \in 1..Len(rs) : "error" \notin DOMAIN rs[i] /\ "name" \notin DOMAIN rs[i]})

\* d.update(other) of two dicts: the keys of other win
dict_update(d, other) == other @@ d

\* the failed result the except clause of the loop appends
FailedResult(name, e) ==
    [model_name |-> name, rmse |-> Inf, mae |-> Inf, r2_score |-> NegInf,
     training_time |-> Int2Rat(0), error |-> e]

\* rmse a below rmse b, for square roots of non-negative rationals
RmseLess(a, b) == Less(<<a[1], a[2]>>, <<b[1], b[2]>>)

\* df.sort_values('rmse') on rows that hold a finite rmse each: ascending, rows
\* of equal rmse in their order of arrival
RECURSIVE InsertByRmse(_, _)
InsertByRmse(sorted, r) ==
    IF sorted = <<>> THEN <<r>>
    ELSE IF RmseLess(r.rmse, sorted[1].rmse) THEN <<r>> \o sorted
    ELSE <<sorted[1]>> \o InsertByRmse(Tail(sorted), r)

\* a table left in its order of arrival
sort_values_unsorted(rows) == rows

RECURSIVE sort_values(_)
sort_values(rows) ==
    IF rows = <<>> THEN <<>>
    ELSE InsertByRmse(sort_values(SubSeq(rows, 1, Len(rows) - 1)), rows[Len(rows)])

\* a filter that keeps every row
NotFailed_keep_all(rows) == rows

\* df_results[df_results['rmse'] != float('inf')]
RECURSIVE NotFailed(_)
NotFailed(rows) ==
    IF rows = <<>> THEN <<>>
    ELSE (IF rows[1].rmse # Inf THEN <<rows[1]>> ELSE <<>>) \o NotFailed(Tail(rows))

\* pd.DataFrame(results).to_csv: one line per result, one field per column of
\* the union of the results' keys, empty where a result lacks the key
to_csv(rows) ==
    LET columns == UNION {DOMAIN rows[k] : k \in 1..Len(rows)}
    IN  array([k \in 1..Len(rows) |->
            [c \in columns |-> IF c \in DOMAIN rows[k] THEN rows[k][c] ELSE ""]])

\* json.dump(self.metrics_history, f): the list of the history's dicts
ModelEvaluator_save_results(history) == array([k \in 1..Len(history) |-> history[k]])

\* ground truths netflix_complete.txt may hold for an observed matrix X: the
\* same shape, every rating 2, every rating 5, or the two alternating
CompleteFor(X) ==
    {array([i \in 1..n_rows(X) |-> array([j \in 1..n_cols(X) |-> Int2Rat(v)])]) :
        v \in {2, 5}}
    \cup {array([i \in 1..n_rows(X) |-> array([j \in 1..n_cols(X) |->
              IF (i + j) % 2 = 0 THEN Int2Rat(2) ELSE Int2Rat(5)])])}

\* the history of the process-wide evaluator when the comparison starts: empty,
\* or holding the record of run_quick_test, which __main__ runs first
EarlierHistories ==
    {<<>>,
     ModelEvaluator_evaluate_model(<<>>, TestComplete,
         MeanImputationBaseline_predict(
             MeanImputationBaseline_fit(NewObject, TestIncomplete).self,
             TestIncomplete).value,
         "Test_Baseline").history}

\* the object models[name] of the configuration
RunObject(i) == Construct(RunModels[i].kind, DEFAULT_K_CLUSTERS, DEFAULT_K_NEIGHBORS)

\* run_baseline_comparison has loaded the data and built models
InitRun ==
    /\ X_incomplete \in Datasets
    /\ X_complete \in CompleteFor(X_incomplete)
    /\ metrics_history \in EarlierHistories
    /\ model_index = 1
    /\ kind = RunModels[1].kind
    /\ self = RunObject(1)
    /\ results = <<>>
    /\ df_success = None
    /\ files = None
    /\ call = NoCall
    /\ fit_returned = FALSE
    /\ X_pred = None
    /\ pc = "run:fit"
    /\ ServingIdle

\* the loop moves to the next model, or past the last one to the ranking
RunAdvance ==
    /\ model_index' = model_index + 1
    /\ IF model_index < Len(RunModels)
       THEN /\ kind' = RunModels[model_index + 1].kind
            /\ self' = RunObject(model_index + 1)
            /\ pc' = "run:fit"
       ELSE /\ UNCHANGED <<kind, self>>
            /\ pc' = "run:rank"
    /\ fit_returned' = FALSE

\* an exception that leaves the loop: the failed result is appended and the
\* remaining models are skipped
RunExcept_abort(e) ==
    /\ results' = Append(results, FailedResult(RunModels[model_index].name, e))
    /\ model_index' = Len(RunModels) + 1
    /\ pc' = "run:rank"
    /\ fit_returned' = FALSE
    /\ UNCHANGED <<kind, self>>

\* except Exception as e: the failed result is appended and the loop continues
RunExcept(e) ==
    /\ results' = Append(results, FailedResult(RunModels[model_index].name, e))
    /\ RunAdvance

\* model.fit(X_incomplete)
RunFit ==
    /\ pc = "run:fit"
    /\ \E out \in ModelFit(kind, self, X_incomplete) :
        /\ call' = [op |-> "fit", X |-> X_incomplete,
                    X_after |-> FitArgument(kind, self, X_incomplete),
                    status |-> out.status, value |-> None, repeat |-> FALSE]
        /\ X_incomplete' = FitArgument(kind, self, X_incomplete)
        /\ IF out.status = "ok"
           THEN /\ self' = out.self
                /\ fit_returned' = TRUE
                /\ pc' = "run:predict"
                /\ UNCHANGED <<kind, model_index, results>>
           ELSE RunExcept(out.status)
    /\ UNCHANGED <<X_complete, X_pred, metrics_history, df_success, files, servingVars>>

\* X_pred = model.predict(X_incomplete)
RunPredict ==
    /\ pc = "run:predict"
    /\ \E out \in {ModelPredict(kind, self, X_incomplete)} :
        /\ call' = [op |-> "predict", X |-> X_incomplete,
                    X_after |-> PredictArgument(kind, self, X_incomplete, out),
                    status |-> out.status, value |-> out.value, repeat |-> FALSE]
        /\ X_incomplete' = PredictArgument(kind, self, X_incomplete, out)
        /\ IF out.status = "ok"
           THEN /\ X_pred' = out.value
                /\ pc' = "run:evaluate"
                /\ UNCHANGED <<kind, self, fit_returned, model_index, results>>
           ELSE /\ RunExcept(out.status)
                /\ UNCHANGED X_pred
    /\ UNCHANGED <<X_complete, metrics_history, df_success, files, servingVars>>

\* metrics = evaluator.evaluate_model(X_complete, X_pred, name)
RunEvaluate ==
    /\ pc = "run:evaluate"
    /\ \E out \in {ModelEvaluator_evaluate_model(metrics_history, X_complete, X_pred,
                                                 RunModels[model_index].name)} :
        /\ call' = [op |-> "evaluate_model", X |-> <<X_complete, X_pred>>,
                    X_after |-> <<X_complete, X_pred>>,
                    status |-> out.status, value |-> out.value, repeat |-> FALSE]
        /\ metrics_history' = out.history
        /\ IF out.status = "ok"
           THEN /\ pc' = "run:info"
                /\ UNCHANGED <<kind, self, fit_returned, model_index, results>>
           ELSE RunExcept(out.status)
    /\ UNCHANGED <<X_incomplete, X_complete, X_pred, df_success, files, servingVars>>

\* metrics['training_time'] = ...; metrics.update(model.get_model_info());
\* results.append(metrics).  metrics is the dict evaluate_model appended to
\* metrics_history, so the history's last record changes with it.
\* An exception in get_model_info is swallowed by the bare except and leaves
\* metrics without the model info.
RunInfo ==
    /\ pc = "run:info"
    /\ \E model_info \in ModelInfoOutcomes(kind, self) :
        /\ model_info.status = "ok" \/ InfoRaises(results) < MaxInfoRaises
        /\ call' = [op |-> "get_model_info", X |-> None, X_after |-> None,
                    status |-> model_info.status, value |-> model_info.value,
                    repeat |-> FALSE]
        /\ LET timed == dict_update(metrics_history[Len(metrics_history)],
                                    [training_time |-> Elapsed])
               metrics == IF model_info.status = "ok"
                          THEN dict_update(timed, model_info.value)
                          ELSE timed
           IN  /\ metrics_history' =
                      [metrics_history EXCEPT ![Len(metrics_history)] = metrics]
               /\ results' = Append(results, metrics)
    /\ RunAdvance
    /\ UNCHANGED <<X_incomplete, X_complete, X_pred, df_success, files, servingVars>>

\* after the loop: the failed results are dropped, the rest is sorted by rmse,
\* the two artifacts are written and the sorted table is returned; with no
\* successful result nothing is written and an empty table is returned
RunRank ==
    /\ pc = "run:rank"
    /\ LET df_results == results
           succeeded == NotFailed(df_results)
       IN  IF Len(succeeded) > 0
           THEN /\ df_success' = sort_values(succeeded)
                /\ files' = [json |-> ModelEvaluator_save_results(metrics_history),
                             csv |-> to_csv(df_results)]
           ELSE /\ df_success' = <<>>
                /\ UNCHANGED files
    /\ pc' = "run:returned"
    /\ UNCHANGED <<kind, X_incomplete, X_complete, self, call, fit_returned, X_pred,
                   metrics_history, model_index, results, servingVars>>

NextRun == RunFit \/ RunPredict \/ RunEvaluate \/ RunInfo \/ RunRank

SpecRun == InitRun /\ [][NextRun]_vars

\* =============================================================== web_app/app.py
\* the list lengths of the two prediction endpoints
TopNCompare == 5
TopNSingle == 10

MaxItems == 12
MaxInitRuns == 3
NThreads == 2

Threads == 1..NThreads

\* the keys of the models dict, in insertion order, and the class behind each
Algorithms ==
    <<[name |-> "mean_imputation", kind |-> "mean"],
      [name |-> "em_clustering", kind |-> "em"],
      [name |-> "knn_user_based", kind |-> "knn_user"],
      [name |-> "knn_item_based", kind |-> "knn_item"],
      [name |-> "matrix_nmf", kind |-> "nmf"],
      [name |-> "matrix_svd", kind |-> "svd"]>>

AlgorithmNames == {Algorithms[i].name : i \in 1..Len(Algorithms)}

\* models[algorithm] of a models dict held as the sequence of its values
AlgorithmIndex(name) == CHOOSE i \in 1..Len(Algorithms) : Algorithms[i].name = name

\* the dict literal of initialize_models: the six objects are constructed and
\* fitted in order and the first fit that raises ends the evaluation.  The
\* result is the sequence of fit outcomes up to and including the first raise.
RECURSIVE FitModelsFrom(_, _)
FitModelsFrom(i, X) ==
    IF i > Len(Algorithms) THEN {<<>>}
    ELSE UNION {
             {<<o>> \o rest : rest \in (IF o.status = "ok" THEN FitModelsFrom(i + 1, X)
                                        ELSE {<<>>})} :
             o \in ModelFit(Algorithms[i].kind,
                            Construct(Algorithms[i].kind, DEFAULT_K_CLUSTERS,
                                      DEFAULT_K_NEIGHBORS),
                            X)}

\* 1 <= rating <= 5 on floats: false for NaN
InScale(rating) == ~isnan(rating) /\ ~Less(rating, Int2Rat(1)) /\ ~Less(Int2Rat(5), rating)

\* the validation loop of compare_algorithms: the first offending entry decides
RECURSIVE ValidateRatings(_, _)
ValidateRatings(user_ratings, total_items) ==
    IF user_ratings = <<>> THEN "ok"
    ELSE LET item_id == user_ratings[1][1]
             rating == user_ratings[1][2]
         IN  IF ~InScale(rating) THEN "Rating must be between 1 and 5"
             ELSE IF ~(0 <= item_id /\ item_id < total_items) THEN "Item ID out of range"
             ELSE ValidateRatings(Tail(user_ratings), total_items)

\* the position a numpy index denotes in an array of length n (1-based), 0
\* when it raises IndexError: a negative index counts from the end
np_index(n, i) ==
    IF 0 <= i /\ i < n THEN i + 1
    ELSE IF -n <= i /\ i < 0 THEN n + i + 1
    ELSE 0

\* user_vector[int(item_id)] = float(rating) for every entry, in order
RECURSIVE FillUserVector(_, _)
FillUserVector(user_vector, user_ratings) ==
    IF user_ratings = <<>> THEN Ok(user_vector)
    ELSE LET at == np_index(Len(user_vector), user_ratings[1][1])
         IN  IF at = 0 THEN Err("IndexError: index out of bounds")
             ELSE FillUserVector([user_vector EXCEPT ![at] = user_ratings[1][2]],
                                 Tail(user_ratings))

\* np.full(n, np.nan) with the ratings written into it
UserVector(total_items, user_ratings) ==
    FillUserVector(array([j \in 1..total_items |-> NaN]), user_ratings)

\* np.where(mask)[0]: the positions that hold TRUE, ascending
RECURSIVE where_from(_, _)
where_from(mask, k) ==
    IF k > Len(mask) THEN <<>>
    ELSE (IF mask[k] THEN <<k>> ELSE <<>>) \o where_from(mask, k + 1)

where(mask) == where_from(mask, 1)

\* the float order np.argsort sorts by: NaN after every number
SortsBefore(a, b) == ~isnan(a) /\ (isnan(b) \/ Less(a, b))

\* np.argsort(v): the positions of v in ascending order of value.  Arrays of
\* at most 16 elements are sorted by insertion, which keeps equal values in
\* index order: position m comes after every position that sorts before it
\* and after the earlier positions of equal value.
argsort(v) ==
    array([p \in 1..Len(v) |->
        CHOOSE m \in 1..Len(v) :
            Cardinality({e \in 1..Len(v) :
                            \/ SortsBefore(v[e], v[m])
                            \/ ~SortsBefore(v[m], v[e]) /\ e < m}) = p - 1])

\* s[-N:]
LastN(s, N) == IF Len(s) <= N THEN s ELSE SubSeq(s, Len(s) - N + 1, Len(s))

\* s[::-1]
Reverse(s) == array([k \in 1..Len(s) |-> s[Len(s) + 1 - k]])

\* the only element of a one-element set
One(S) == CHOOSE x \in S : TRUE

\* predictions[unrated_indices]
UnratedPredictions(predictions, unrated_indices) ==
    array([k \in 1..Len(unrated_indices) |-> predictions[unrated_indices[k]]])

\* the entries of a list: item_id and predicted_rating of each top index
TopEntries(predictions, unrated_indices, top) ==
    array([k \in 1..Len(top) |->
        [item_id |-> unrated_indices[top[k]] - 1,
         predicted_rating |-> predictions[unrated_indices[top[k]]]]])

\* unrated_indices[np.argsort(unrated_predictions)[-N:]][::-1].  Indexing
\* predictions with a position it does not have raises IndexError.
TopIndices(predictions, unrated_indices, N) ==
    IF \E k \in 1..Len(unrated_indices) : unrated_indices[k] > Len(predictions)
    THEN Err("IndexError: index out of bounds")
    ELSE One({Ok(TopEntries(predictions, unrated_indices, top)) :
                 top \in {Reverse(last) :
                     last \in {LastN(order, N) :
                         order \in {argsort(unrated_predictions) :
                             unrated_predictions \in
                                 {UnratedPredictions(predictions, unrated_indices)}}}}})

\* the top-N list of an endpoint from one model's predictions, over the
\* positions the user has not rated
TopPredictions(predictions, user_vector, N) ==
    One({TopIndices(predictions, unrated_indices, N) :
            unrated_indices \in
                {where(array([j \in 1..Len(user_vector) |-> isnan(user_vector[j])]))}})

\* an entry of the answer of an endpoint
Answer(algorithm, status, predictions, top, error) ==
    [algorithm |-> algorithm, status |-> status, predictions |-> predictions,
     top |-> top, error |-> error]

\* the try block of compare_algorithms after predict has returned out
CompareTop(name, out, user_vector) ==
    IF out.value = <<>> THEN Answer(name, "error", None, <<>>, "IndexError: index 0")
    ELSE IF \A j \in 1..Len(user_vector) : ~isnan(user_vector[j])
    THEN Answer(name, "success", out.value[1], <<>>, "")
    ELSE One({IF top.status # "ok" THEN Answer(name, "error", None, <<>>, top.status)
              ELSE Answer(name, "success", out.value[1], top.value, "") :
                 top \in {TopPredictions(out.value[1], user_vector, TopNCompare)}})

\* one entry of algorithm_results in compare_algorithms: predict and the top
\* list inside the try, the error entry from the except
CompareOne(i, user_vector) ==
    One({IF out.status # "ok" THEN Answer(Algorithms[i].name, "error", None, <<>>, out.status)
         ELSE CompareTop(Algorithms[i].name, out, user_vector) :
            out \in {ModelPredict(Algorithms[i].kind, models[i], <<user_vector>>)}})

\* a response: the request it answers, its HTTP status, whether a model's
\* predict was called for it, and per algorithm the predictions and the list
Response(endpoint, user_ratings, algorithm, code, predicted, user_vector, answers) ==
    [endpoint |-> endpoint, ratings |-> user_ratings, algorithm |-> algorithm,
     code |-> code, predicted |-> predicted, user_vector |-> user_vector,
     results |-> answers]

\* compare_algorithms once the user vector is built
CompareAll(user_ratings, filled) ==
    IF filled.status # "ok"
    THEN Response("compare", user_ratings, "", 500, FALSE, None, <<>>)
    ELSE Response("compare", user_ratings, "", 200, TRUE, filled.value,
                  array([i \in 1..Len(Algorithms) |-> CompareOne(i, filled.value)]))

\* POST /api/compare_algorithms once initialize_models has returned True
compare_algorithms(user_ratings) ==
    IF user_ratings = <<>>
    THEN Response("compare", user_ratings, "", 400, FALSE, None, <<>>)
    ELSE IF ValidateRatings(user_ratings, n_cols(X_incomplete)) # "ok"
    THEN Response("compare", user_ratings, "", 400, FALSE, None, <<>>)
    ELSE One({CompareAll(user_ratings, filled) :
                 filled \in {UserVector(n_cols(X_incomplete), user_ratings)}})

\* single_algorithm_prediction after predict has returned out
SingleTop(user_ratings, algorithm, out, user_vector) ==
    IF out.status # "ok" \/ out.value = <<>>
    THEN Response("single", user_ratings, algorithm, 500, TRUE, user_vector, <<>>)
    ELSE One({IF top.status # "ok"
              THEN Response("single", user_ratings, algorithm, 500, TRUE, user_vector, <<>>)
              ELSE Response("single", user_ratings, algorithm, 200, TRUE, user_vector,
                            <<Answer(algorithm, "success", out.value[1], top.value, "")>>) :
                 top \in {TopPredictions(out.value[1], user_vector, TopNSingle)}})

\* single_algorithm_prediction once the user vector is built
SinglePredict(user_ratings, algorithm, filled) ==
    IF filled.status # "ok"
    THEN Response("single", user_ratings, algorithm, 500, FALSE, None, <<>>)
    ELSE One({SingleTop(user_ratings, algorithm, out, filled.value) :
                 out \in {ModelPredict(Algorithms[AlgorithmIndex(algorithm)].kind,
                                       models[AlgorithmIndex(algorithm)],
                                       <<filled.value>>)}})

\* POST /api/single_algorithm once initialize_models has returned True
single_algorithm_prediction(user_ratings, algorithm) ==
    IF algorithm \notin AlgorithmNames
    THEN Response("single", user_ratings, algorithm, 400, FALSE, None, <<>>)
    ELSE IF user_ratings = <<>>
    THEN Response("single", user_ratings, algorithm, 400, FALSE, None, <<>>)
    ELSE One({SinglePredict(user_ratings, algorithm, filled) :
                 filled \in {UserVector(n_cols(X_incomplete), user_ratings)}})

\* ---------------------------------------------------------------- inputs
\* the rows of the rating file: the ratings 1..5 in rising or falling cycles,
\* a constant row, and a rising row whose second item nobody has rated
ItemPattern(what, j) ==
    CASE what = "rising" -> Int2Rat(1 + ((j - 1) % 5))
      [] what = "falling" -> Int2Rat(5 - ((j - 1) % 5))
      [] what = "constant" -> Int2Rat(3)
      [] what = "gap" -> IF j = 2 THEN NaN ELSE Int2Rat(1 + ((j - 1) % 5))

ItemPatterns == {"rising", "falling", "constant", "gap"}

ItemCounts == {1, MaxItems}

RatingFile(users, items, what) ==
    array([i \in 1..users |-> array([j \in 1..items |-> ItemPattern(what, j)])])

\* rating files: enough users for every fit, one too few for the mixture, or
\* (None) a file np.loadtxt cannot read
DataFiles ==
    {RatingFile(DEFAULT_K_CLUSTERS, n, what) : n \in ItemCounts, what \in ItemPatterns}
    \cup {RatingFile(DEFAULT_K_CLUSTERS - 1, MaxItems, "constant")}
    \cup {None}

\* the try body of initialize_models up to the models dict: the load raises,
\* or the six fits run on the loaded matrix
LoadAndFit(file) ==
    IF file = None THEN {<<Raise(NewObject, "OSError")>>} ELSE FitModelsFrom(1, file)

\* the ratings dict of a request, as its items in order: none, one valid
\* rating, a rating below or above the scale, an item id that counts from the
\* end, one beyond either end, and two valid ratings
RatingsChoices(total_items) ==
    {<<>>,
     <<<<0, Int2Rat(4)>>>>,
     <<<<0, Int2Rat(0)>>>>,
     <<<<0, Int2Rat(7)>>>>,
     <<<<-1, Int2Rat(4)>>>>,
     <<<<total_items, Int2Rat(4)>>>>,
     <<<<-total_items - 1, Int2Rat(4)>>>>,
     <<<<0, Int2Rat(4)>>, <<total_items - 1, Int2Rat(2)>>>>}

AlgorithmChoices ==
    {"mean_imputation", "em_clustering", "knn_user_based", "knn_item_based", "random_forest"}

\* ---------------------------------------------------------------- actions
InitServe ==
    /\ kind = "mean"
    /\ X_incomplete = None /\ X_complete = None /\ X_pred = None
    /\ self = NewObject
    /\ call = NoCall
    /\ fit_returned = FALSE
    /\ metrics_history = <<>>
    /\ pc = "serve"
    /\ RunIdle
    /\ is_initialized = FALSE
    /\ models = None
    /\ request = [t \in Threads |-> "idle"]
    /\ response = None
    /\ data_file \in DataFiles
    /\ init_runs = 0

ServeFrame ==
    UNCHANGED <<kind, X_complete, self, call, fit_returned, X_pred, metrics_history, pc,
                runVars, data_file>>

\* a request enters initialize_models and tests the flag
InitializeCheck(t) ==
    /\ request[t] = "idle"
    /\ request' = [request EXCEPT ![t] = IF is_initialized THEN "handle" ELSE "init:body"]
    /\ UNCHANGED <<X_incomplete, is_initialized, models, response, init_runs>>
    /\ ServeFrame

\* an initialization that sets the flag before it loads and fits
InitializeBody_flag_first(t) ==
    /\ request[t] = "init:body"
    /\ response = None
    /\ init_runs < MaxInitRuns
    /\ init_runs' = init_runs + 1
    /\ X_incomplete' = IF data_file = None THEN X_incomplete ELSE data_file
    /\ is_initialized' = TRUE
    /\ \E fits \in LoadAndFit(data_file) :
           IF fits[Len(fits)].status = "ok"
           THEN /\ models' = array([i \in 1..Len(fits) |-> fits[i].self])
                /\ request' = [request EXCEPT ![t] = "init:flag"]
                /\ UNCHANGED response
           ELSE /\ request' = [request EXCEPT ![t] = "idle"]
                /\ response' = Response("", <<>>, "", 500, FALSE, None, <<>>)
                /\ UNCHANGED models
    /\ ServeFrame

\* the try body up to the models dict: the data are loaded and the six models
\* are fitted; a raise is answered with the 500 of the calling route
InitializeBody(t) ==
    /\ request[t] = "init:body"
    /\ response = None
    /\ init_runs < MaxInitRuns
    /\ init_runs' = init_runs + 1
    /\ X_incomplete' = IF data_file = None THEN X_incomplete ELSE data_file
    /\ \E fits \in LoadAndFit(data_file) :
           IF fits[Len(fits)].status = "ok"
           THEN /\ models' = array([i \in 1..Len(fits) |-> fits[i].self])
                /\ request' = [request EXCEPT ![t] = "init:flag"]
                /\ UNCHANGED response
           ELSE /\ request' = [request EXCEPT ![t] = "idle"]
                /\ response' = Response("", <<>>, "", 500, FALSE, None, <<>>)
                /\ UNCHANGED models
    /\ UNCHANGED is_initialized
    /\ ServeFrame

\* is_initialized = True; return True
InitializeFlag(t) ==
    /\ request[t] = "init:flag"
    /\ is_initialized' = TRUE
    /\ request' = [request EXCEPT ![t] = "handle"]
    /\ UNCHANGED <<X_incomplete, models, response, init_runs>>
    /\ ServeFrame

\* the two prediction routes; responses leave the server one at a time
CompareRequest(t) ==
    /\ request[t] = "handle"
    /\ response = None
    /\ \E user_ratings \in RatingsChoices(n_cols(X_incomplete)) :
           response' = compare_algorithms(user_ratings)
    /\ request' = [request EXCEPT ![t] = "idle"]
    /\ UNCHANGED <<X_incomplete, is_initialized, models, init_runs>>
    /\ ServeFrame

SingleRequest(t) ==
    /\ request[t] = "handle"
    /\ response = None
    /\ \E user_ratings \in RatingsChoices(n_cols(X_incomplete)) :
       \E algorithm \in AlgorithmChoices :
           response' = single_algorithm_prediction(user_ratings, algorithm)
    /\ request' = [request EXCEPT ![t] = "idle"]
    /\ UNCHANGED <<X_incomplete, is_initialized, models, init_runs>>
    /\ ServeFrame

\* the response is sent to the client
Respond ==
    /\ response # None
    /\ response' = None
    /\ UNCHANGED <<X_incomplete, is_initialized, models, request, init_runs>>
    /\ ServeFrame

NextServe ==
    \/ \E t \in Threads :
           \/ InitializeCheck(t)
           \/ InitializeBody(t)
           \/ InitializeFlag(t)
           \/ CompareRequest(t)
           \/ SingleRequest(t)
    \/ Respond

SpecServe == InitServe /\ [][NextServe]_vars

\* ------------------------------------------------------------------ claims
PredictReturned == call.op = "predict" /\ call.status = "ok"

IsRating(x) == x[2] = 1 /\ 1 <= x[1] /\ x[1] <= 5

\* every cell observed in the input of the returned predict has its input value
ObservedPreserved ==
    /\ SameShape(call.value, call.X)
    /\ \A i \in 1..Len(call.X) : \A j \in 1..Len(call.X[i]) :
           ~isnan(call.X[i][j]) => call.value[i][j] = call.X[i][j]

\* C1: every cell that is not missing in the matrix given to predict has the
\* same value in the matrix predict returns, whatever the observed value and
\* whichever the imputer.
C1_ObservedValuePreserved == PredictReturned => ObservedPreserved

\* C2: every cell of a matrix returned by predict is an integer in 1..5 and
\* never the missing marker, whichever the imputer.
C2_RangeInvariant ==
    PredictReturned =>
        \A i \in 1..Len(call.value) : \A j \in 1..Len(call.value[i]) :
            IsRating(call.value[i][j])

\* C3: predict fails with the not-fitted error and returns no matrix exactly
\* when no fit call on the object has returned before it.
C3_PredictBeforeFitFails ==
    call.op = "predict" =>
        /\ (~fit_returned => call.status = NotFitted /\ call.value = None)
        /\ (fit_returned => call.status # NotFitted)

C3_Witness ==
    call.op = "predict" /\ ~fit_returned /\ call.status = NotFitted

\* C4: after fit on a matrix with n_items columns, predict on a matrix with
\* n_items columns returns a matrix of the input's shape, whatever the number
\* of rows and whichever the imputer.
C4_PredictAcceptsAnyRowCount ==
    ( /\ call.op = "predict" /\ fit_returned
      /\ n_cols(call.X) = n_cols(X_incomplete) )
    => (call.status = "ok" /\ SameShape(call.value, call.X))

\* C5: predict on a matrix whose column count differs from the fitted column
\* count fails with an error, whichever the imputer.
C5_ColumnMismatchFails ==
    ( /\ call.op = "predict" /\ fit_returned
      /\ n_cols(call.X) # n_cols(X_incomplete) )
    => call.status # "ok"

\* C6: predict changes no attribute of the object, and a predict call that
\* repeats the one before it returns what that one returned.
C6_IdempotentPredict ==
    [][call'.op = "predict" =>
        /\ self' = self
        /\ (call.op = "predict" /\ call'.X = call.X =>
                call'.status = call.status /\ call'.value = call.value)]_vars

C6_Witness == PredictReturned /\ call.repeat /\ AnyNaN(Flatten(call.X))

\* r is x rounded to the nearest integer, a tie going to the even one
IsNearestEven(x, r) ==
    LET twice == Abs(2 * x[1] - 2 * r * x[2])
    IN  /\ twice <= x[2]
        /\ (twice = x[2] => r % 2 = 0)

Clamped(r) == IF r < 1 THEN 1 ELSE IF r > 5 THEN 5 ELSE r

\* m is the mean of the observed entries of seq (which has one)
IsMeanOf(m, seq) ==
    LET o == Observed(seq)
        total == SumSeq(o)
    IN  /\ ~isnan(m)
        /\ m[1] * total[2] * Len(o) = total[1] * m[2]

HasObserved(seq) == \E k \in 1..Len(seq) : ~isnan(seq[k])

\* C7: MeanImputationBaseline.fit stores per column the mean of its observed
\* cells, or the mean of all observed cells for a column without one; predict
\* gives each missing cell its column's fitted mean rounded to the nearest
\* integer, ties to even, clamped to 1..5 (for a fit matrix with an observed cell).
C7_MeanImputation ==
    (kind = "mean" /\ pc = "lifecycle" /\ fit_returned
        /\ HasObserved(Flatten(X_incomplete))) =>
    /\ \A j \in 1..n_cols(X_incomplete) :
           IF HasObserved(Column(X_incomplete, j))
           THEN IsMeanOf(self.feature_means[j], Column(X_incomplete, j))
           ELSE IsMeanOf(self.feature_means[j], Flatten(X_incomplete))
    /\ PredictReturned =>
           \A i \in 1..Len(call.X) : \A j \in 1..Len(call.X[i]) :
               isnan(call.X[i][j]) =>
                   \E r \in 0..8 :
                       /\ IsNearestEven(self.feature_means[j], r)
                       /\ call.value[i][j] = Int2Rat(Clamped(r))

\* a missing cell filled from a mean that is a tie and rounds down to even
C7_Witness ==
    /\ kind = "mean" /\ PredictReturned
    /\ \E i \in 1..Len(call.X) : \E j \in 1..Len(call.X[i]) :
           /\ isnan(call.X[i][j])
           /\ self.feature_means[j] = Rat(9, 2)
           /\ call.value[i][j] = Int2Rat(4)

ScenarioRun ==
    /\ X_incomplete = TestIncomplete /\ X_complete = TestComplete
    /\ pc = "quick_test:True"

ScenarioPrediction ==
    << <<Int2Rat(5), Int2Rat(3), Int2Rat(4)>>,
       <<Int2Rat(3), Int2Rat(5), Int2Rat(4)>>,
       <<Int2Rat(4), Int2Rat(4), Int2Rat(4)>> >>

\* C8: on the baseline scenario MeanImputationBaseline predicts
\* [[5,3,4],[3,5,4],[4,4,4]] and the evaluation scores the two originally
\* missing cells only: n_predictions 2, MSE 6.5, MAE 2.5, R2 -25.
C8_BaselineScenario ==
    ScenarioRun =>
        /\ X_pred = ScenarioPrediction
        /\ call.value.n_predictions = 2
        /\ call.value.rmse = sqrt(Rat(13, 2))
        /\ call.value.mae = Rat(5, 2)
        /\ call.value.r2_score = Int2Rat(-25)

\* what the scenario run records: all nine cells are scored
ScenarioAsCoded ==
    ScenarioRun =>
        /\ X_pred = ScenarioPrediction
        /\ call.value.n_predictions = 9
        /\ call.value.rmse = sqrt(Rat(13, 9))
        /\ call.value.mae = Rat(5, 9)
        /\ call.value.r2_score = Rat(11, 128)

EvaluateReturned == call.op = "evaluate_model" /\ call.status = "ok"

\* the cells of the two evaluated matrices that are missing in neither
Retained ==
    {c \in (1..Len(call.X[1])) \X (1..Len(call.X[1][1])) :
        ~isnan(call.X[1][c[1]][c[2]]) /\ ~isnan(call.X[2][c[1]][c[2]])}

\* the term of a retained cell with true value t and predicted value p
Term(what, t, p) ==
    CASE what = "squared error" -> Mul(Sub(t, p), Sub(t, p))
      [] what = "absolute error" -> AbsRat(Sub(t, p))
      [] what = "truth" -> t
      [] what = "squared truth" -> Mul(t, t)

\* sum of a term over the retained cells
RetainedSum(what) ==
    SumSeq(Flatten(array([i \in 1..Len(call.X[1]) |->
        array([j \in 1..Len(call.X[1][i]) |->
            IF <<i, j>> \in Retained
            THEN Term(what, call.X[1][i][j], call.X[2][i][j]) ELSE Int2Rat(0)])])))

\* C9: a returned evaluation is computed over exactly the cells missing in
\* neither matrix: n_predictions is their number, MSE and MAE are the means of
\* their squared and absolute errors, R2 is 1 - SS_res / SS_tot over them.
C9_MaskCorrectness ==
    EvaluateReturned =>
        LET n == Cardinality(Retained)
            ss_res == RetainedSum("squared error")
            \* SS_tot = sum t^2 - (sum t)^2 / n
            ss_tot == Sub(RetainedSum("squared truth"),
                          DivInt(Mul(RetainedSum("truth"), RetainedSum("truth")), n))
            m == call.value
        IN  /\ m.n_predictions = n
            /\ n > 0
            /\ m.rmse = sqrt(DivInt(ss_res, n))
            /\ m.mae = DivInt(RetainedSum("absolute error"), n)
            /\ (n >= 2 /\ ss_tot[1] # 0) =>
                   Mul(Sub(Int2Rat(1), m.r2_score), ss_tot) = ss_res

\* an evaluation that dropped a cell missing in the prediction only and one
\* missing in the ground truth only
C9_Witness ==
    /\ EvaluateReturned
    /\ call.value.n_predictions >= 1
    /\ \E j \in 1..Len(call.X[1][1]) :
           isnan(call.X[1][1][j]) /\ ~isnan(call.X[2][1][j])
    /\ \E j \in 1..Len(call.X[1][1]) :
           ~isnan(call.X[1][1][j]) /\ isnan(call.X[2][1][j])

\* C10: an evaluate_model call on matrices with no cell observed in both
\* raises: it returns no record and leaves metrics_history as it was.
C10_ZeroRetainedFails ==
    [][(call'.op = "evaluate_model"
        /\ \A i \in 1..Len(call'.X[1]) : \A j \in 1..Len(call'.X[1][i]) :
               isnan(call'.X[1][i][j]) \/ isnan(call'.X[2][i][j]))
       => /\ call'.status # "ok"
          /\ call'.value = None
          /\ metrics_history' = metrics_history]_vars

\* a raising evaluation after a recorded one: the history keeps its record
C10_Witness ==
    /\ call.op = "evaluate_model" /\ call.status # "ok"
    /\ metrics_history # <<>>
    /\ Retained = {}

\* the record of a model that failed in the comparison loop
IsFailedResult(r) == "error" \in DOMAIN r

\* h is a prefix of g
IsPrefix(h, g) ==
    /\ Len(h) <= Len(g)
    /\ \A k \in 1..Len(h) : g[k] = h[k]

\* C11: metrics_history is append-only: no step removes, reorders or alters a
\* record it holds, a successful evaluate_model call appends exactly one
\* record, and evaluate_model leaves its two input matrices as they were.
C11_AppendOnlyHistory ==
    [][/\ IsPrefix(metrics_history, metrics_history')
       /\ pc = "run:evaluate" =>
              /\ X_complete' = X_complete /\ X_pred' = X_pred
              /\ call'.status = "ok" => Len(metrics_history') = Len(metrics_history) + 1]_vars

\* C12: when fit, predict or the evaluation of a model raises inside the loop,
\* the failed result (rmse and mae +inf, r2_score -inf, the error message) is
\* appended for that model and the loop goes on with the next model; after the
\* loop results holds one record per configured model, in order.
C12_ComparisonIsolation ==
    [][/\ (pc \in {"run:fit", "run:predict", "run:evaluate"} /\ call'.status # "ok") =>
              /\ Len(results') = Len(results) + 1
              /\ IsPrefix(results, results')
              /\ LET r == results'[Len(results')]
                 IN  /\ r.model_name = RunModels[model_index].name
                     /\ r.rmse = <<1, 0>> /\ r.mae = <<1, 0>> /\ r.r2_score = <<-1, 0>>
                     /\ r.error = call'.status
              /\ IF model_index < Len(RunModels)
                 THEN /\ pc' = "run:fit"
                      /\ model_index' = model_index + 1
                      /\ kind' = RunModels[model_index'].kind
                      /\ ~self'.is_fitted
                 ELSE pc' = "run:rank"
       /\ pc' = "run:rank" =>
              /\ Len(results') = Len(RunModels)
              /\ \A i \in 1..Len(RunModels) :
                     /\ results'[i].model_name = RunModels[i].name
                     /\ ~IsFailedResult(results'[i]) => "n_predictions" \in DOMAIN results'[i]]_vars

\* a finished run in which a model failed and a later model was evaluated
C12_Witness ==
    /\ pc = "run:returned"
    /\ \E i \in 1..Len(results) : \E j \in (i + 1)..Len(results) :
           IsFailedResult(results[i]) /\ ~IsFailedResult(results[j])

\* C13: when a model succeeded, the returned table holds exactly the records
\* of the models that did not fail, in non-decreasing order of rmse.
C13_Ranking ==
    (pc = "run:returned" /\ \E i \in 1..Len(results) : ~IsFailedResult(results[i])) =>
        /\ \A k \in 1..Len(df_success) : ~IsFailedResult(df_success[k])
        /\ \A i \in 1..Len(results) :
               ~IsFailedResult(results[i]) =>
                   Cardinality({k \in 1..Len(df_success) :
                                   df_success[k].model_name = results[i].model_name}) = 1
        /\ \A k \in 1..Len(df_success) :
               \E i \in 1..Len(results) :
                   /\ ~IsFailedResult(results[i])
                   /\ results[i].model_name = df_success[k].model_name
                   /\ results[i].rmse = df_success[k].rmse
        /\ \A k \in 1..(Len(df_success) - 1) :
               df_success[k].rmse[1] * df_success[k + 1].rmse[2]
                   <= df_success[k + 1].rmse[1] * df_success[k].rmse[2]

\* a returned table in which sorting moved a later model before an earlier one
C13_Witness ==
    /\ pc = "run:returned"
    /\ \E i \in 1..Len(results) : \E j \in (i + 1)..Len(results) :
           /\ ~IsFailedResult(results[i]) /\ ~IsFailedResult(results[j])
           /\ results[j].rmse[1] * results[i].rmse[2]
                  < results[i].rmse[1] * results[j].rmse[2]

AllFailed == \A i \in 1..Len(results) : IsFailedResult(results[i])

\* C14: when every configured model failed, the ranking step raises nothing:
\* the run returns an empty table and writes no artifact.
C14_AllFailEmptyResult ==
    [][(pc = "run:rank" /\ AllFailed) =>
           /\ pc' = "run:returned"
           /\ df_success' = <<>>
           /\ files' = files]_vars

C14_Witness == pc = "run:returned" /\ Len(results) = Len(RunModels) /\ AllFailed

\* the model names of a list of records
ModelNamesOf(rows) == {rows[k].model_name : k \in 1..Len(rows)}

\* C15: the two artifacts of a run hold the same set of model records, one per
\* model of the run.
C15_ArtifactsEquivalent ==
    files # None =>
        /\ ModelNamesOf(files.json) = ModelNamesOf(files.csv)
        /\ Len(files.json) = Len(RunModels)
        /\ Len(files.csv) = Len(RunModels)
        /\ ModelNamesOf(files.csv) = {RunModels[i].name : i \in 1..Len(RunModels)}

\* what the artifacts hold: the csv every result of the run, failed ones too,
\* the json the evaluator's history, successful evaluations only, earlier ones too
ArtifactsAsCoded ==
    files # None =>
        /\ ModelNamesOf(files.csv) = {RunModels[i].name : i \in 1..Len(RunModels)}
        /\ ModelNamesOf(files.json) =
               {results[i].model_name : i \in {k \in 1..Len(results) :
                                                  ~IsFailedResult(results[k])}}
               \cup (ModelNamesOf(metrics_history) \ ModelNamesOf(results))

\* C16: the body of initialize_models, which loads the data and fits the six
\* models, runs at most once under every interleaving of requests, and once
\* is_initialized is set no request runs it again.
C16_InitializedOnce ==
    [][/\ init_runs' <= 1
       /\ is_initialized => init_runs' = init_runs]_vars

\* the request a response answers holds a rating outside 1..5 or an item id
\* outside 0..n_items-1
HasInvalidRating(r) ==
    \E k \in 1..Len(r.ratings) :
        \/ ~InScale(r.ratings[k][2])
        \/ r.ratings[k][1] < 0
        \/ r.ratings[k][1] >= n_cols(X_incomplete)

\* C17: a request to /api/compare_algorithms or /api/single_algorithm that
\* holds a rating outside 1..5 or an item id outside 0..n_items-1 is answered
\* with an error, and no model's predict is called for it.
C17_InvalidRatingsRejected ==
    (response # None /\ response.endpoint \in {"compare", "single"}
         /\ HasInvalidRating(response)) =>
        /\ response.code # 200
        /\ ~response.predicted

\* a >= b on floats
GreaterEq(a, b) == ~isnan(a) /\ ~isnan(b) /\ ~Less(a, b)

\* the response answers a request whose ratings and algorithm are all valid
AnswersValidRequest(r) ==
    /\ r.endpoint \in {"compare", "single"}
    /\ r.ratings # <<>>
    /\ ~HasInvalidRating(r)
    /\ r.endpoint = "single" => r.algorithm \in AlgorithmNames

\* the list an algorithm returned is the top N of the unrated items
IsTopN(answer, user_vector, N) ==
    LET top == answer.top
        unrated == {j \in 1..Len(user_vector) : isnan(user_vector[j])}
        returned == {top[k].item_id + 1 : k \in 1..Len(top)}
    IN  /\ returned \subseteq unrated
        /\ Cardinality(returned) = Len(top)
        /\ Len(top) = IF Cardinality(unrated) < N THEN Cardinality(unrated) ELSE N
        /\ \A k \in 1..(Len(top) - 1) :
               GreaterEq(top[k].predicted_rating, top[k + 1].predicted_rating)
        /\ \A k \in 1..Len(top) :
               top[k].predicted_rating = answer.predictions[top[k].item_id + 1]
        /\ \A j \in unrated \ returned : \A k \in 1..Len(top) :
               ~Less(top[k].predicted_rating, answer.predictions[j])

\* C18: for a valid request every list the serving layer returns holds only
\* unrated items, N of them (10 for /api/single_algorithm, 5 per algorithm for
\* /api/compare_algorithms) or all unrated items when there are fewer, in
\* non-increasing order of predicted rating, and no unrated item left out has
\* a higher predicted rating than a returned one.
C18_TopN ==
    (response # None /\ response.code = 200 /\ AnswersValidRequest(response)) =>
        \A i \in 1..Len(response.results) :
            response.results[i].status = "success" =>
                IsTopN(response.results[i], response.user_vector,
                       IF response.endpoint = "compare" THEN TopNCompare ELSE TopNSingle)

\* what the lists are: the top N as long as no prediction of an unrated item
\* is NaN; numpy sorts NaN last, so an item predicted NaN heads the list
TopNWithoutNaN ==
    (response # None /\ response.code = 200 /\ AnswersValidRequest(response)) =>
        \A i \in 1..Len(response.results) :
            LET answer == response.results[i]
            IN  (/\ answer.status = "success"
                 /\ \A j \in 1..Len(answer.predictions) :
                        isnan(response.user_vector[j]) => ~isnan(answer.predictions[j])) =>
                    IsTopN(answer, response.user_vector,
                           IF response.endpoint = "compare" THEN TopNCompare
                           ELSE TopNSingle)

\* the rows of X without an observed entry
EmptyRows(X) == {i \in 1..n_rows(X) : \A j \in 1..n_cols(X) : isnan(X[i][j])}

\* C19: on a matrix that holds a row without any observed entry, fit raises
\* nothing, predict of that matrix after the fit raises nothing, and every
\* cell of that row in the output is an integer in 1..5.
C19_AllMissingUser ==
    /\ (call.op = "fit" /\ EmptyRows(call.X) # {}) => call.status = "ok"
    /\ (call.op = "predict" /\ fit_returned /\ call.X = X_incomplete
            /\ EmptyRows(call.X) # {}) =>
           /\ call.status = "ok"
           /\ \A i \in EmptyRows(call.X) :
                  /\ i <= Len(call.value)
                  /\ Len(call.value[i]) = n_cols(call.X)
                  /\ \A j \in 1..Len(call.value[i]) : IsRating(call.value[i][j])

\* two rows share a coordinate that both have observed
Comparable(x, y) == \E k \in 1..Len(x) : ~isnan(x[k]) /\ ~isnan(y[k])

\* the rows of M that qualify as neighbours for the missing cell (i, j): they
\* hold a value in column j and are comparable with row i
Qualifying(M, i, j) == {d \in 1..n_rows(M) : ~isnan(M[d][j]) /\ Comparable(M[i], M[d])}

\* the mean of column j over the rows in D
MeanOver(M, D, j) ==
    nanmean(array([d \in 1..n_rows(M) |-> IF d \in D THEN M[d][j] ELSE NaN]))

\* what a missing cell (i, j) of M is filled with when neighbours are scarce:
\* the mean over all qualifying rows, the column mean when there is none
ScarceFill(M, i, j) ==
    IF Qualifying(M, i, j) # {} THEN MeanOver(M, Qualifying(M, i, j), j)
    ELSE nanmean(Column(M, j))

\* the matrix the KNNImputer of the object sees: X, or X.T for the item-based one
ImputerView(X) == IF kind = "knn_item" THEN T(X) ELSE X

\* the missing cells of M whose column holds fewer values than n_neighbors
ScarceCells(M) ==
    {c \in (1..n_rows(M)) \X (1..n_cols(M)) :
        /\ isnan(M[c[1]][c[2]])
        /\ self.n_neighbors > Cardinality({d \in 1..n_rows(M) : ~isnan(M[d][c[2]])})}

\* the returned predict of the fitted matrix fills the scarce cells in cells
ScarcityFilled(cells) ==
    LET M == ImputerView(call.X)
        out == ImputerView(call.value)
    IN  /\ call.status = "ok"
        /\ SameShape(out, M)
        /\ \A c \in cells :
               out[c[1]][c[2]] = clip(round(ScarceFill(M, c[1], c[2])), 1, 5)

\* C20: with n_neighbors larger than the number of rows that hold a value in
\* the target column, fit and predict of KNNRecommender and of
\* KNNCollaborativeRecommender raise nothing, and each missing cell is filled
\* with the mean over all qualifying rows, or with the column mean when no row
\* qualifies.
C20_NeighborScarcity ==
    kind \in {"knn_user", "knn_item"} =>
        /\ call.op = "fit" => call.status = "ok"
        /\ (call.op = "predict" /\ fit_returned /\ call.X = X_incomplete) =>
               ScarcityFilled(ScarceCells(ImputerView(call.X)))

\* what happens: the cells are filled so in every column that holds a value;
\* a column without one is dropped from the output
NeighborScarcityAsCoded ==
    (/\ kind \in {"knn_user", "knn_item"}
     /\ call.op = "predict" /\ fit_returned /\ call.X = X_incomplete
     /\ \A j \in 1..n_cols(ImputerView(call.X)) :
            ~isnan(nanmean(Column(ImputerView(call.X), j)))) =>
        ScarcityFilled(ScarceCells(ImputerView(call.X)))

\* C21: EMRecommender.fit on a matrix with fewer rows than n_components raises
\* and leaves the recommender not fitted, and a predict that follows it fails
\* as on a recommender that was never fitted.
C21_TooFewUsersRejected ==
    [][/\ (kind = "em" /\ call'.op = "fit" /\ n_rows(call'.X) < self'.n_components) =>
              /\ call'.status # "ok"
              /\ ~self'.is_fitted
       /\ (kind = "em" /\ call.op = "fit" /\ n_rows(call.X) < self.n_components
               /\ call'.op = "predict") =>
              call'.status = NotFitted]_vars

\* a predict that failed after a fit on too few rows was attempted
C21_Witness ==
    /\ kind = "em" /\ call.op = "predict" /\ call.status = NotFitted
    /\ self.scaler # None
    /\ n_rows(X_incomplete) < self.n_components

\* every cell of X is missing
AllMissing(X) == \A i \in 1..n_rows(X) : \A j \in 1..n_cols(X) : isnan(X[i][j])

\* C22: MeanImputationBaseline.fit on a matrix in which every cell is missing
\* raises and returns no fitted model, so no predict yields a NaN cell from an
\* undefined global mean.
C22_UndefinedMeanRejected ==
    /\ (kind = "mean" /\ call.op = "fit" /\ AllMissing(call.X)) =>
           /\ call.status # "ok"
           /\ ~self.is_fitted
    /\ (kind = "mean" /\ call.op = "predict" /\ call.status = "ok") =>
           \A i \in 1..Len(call.value) : ~AnyNaN(call.value[i])


\* C23: no imputer mutates its input: the matrix passed to fit and the matrix
\* passed to predict hold after the call the cell values (and the missing
\* positions) they held before it, and the shared observed matrix never changes
C23_InputNotMutated ==
    [][/\ call'.op \in {"fit", "predict"} => call'.X_after = call'.X
       /\ X_incomplete' = X_incomplete]_vars

\* a predict of the shared matrix that filled a missing cell of it has returned
C23_Witness ==
    /\ call.op = "predict" /\ call.status = "ok"
    /\ call.X = X_incomplete
    /\ AnyNaN(Flatten(call.X))
    /\ ~AnyNaN(Flatten(call.value))
    /\ call.X_after = call.X


\* the clusters fit_predict assigned the rows of the fitted matrix to
ClusterLabels ==
    One({array([i \in 1..n_rows(X_temp) |-> GaussianMixture_predict(self.gmm, X_temp[i])]) :
            X_temp \in {SimpleImputer_transform(self.temp_imputer, X_incomplete)}})

AssignedTo(labels, c) == {i \in 1..Len(labels) : labels[i] = c}

\* the users of U that rated item j
ObservedIn(U, j) == {i \in U : ~isnan(X_incomplete[i][j])}

\* C24: after fit of EMRecommender, for every cluster c in 0..n_components-1
\* and every item j, cluster_means[c][j] is the mean of the observed values of
\* column j over the users assigned to c, and the mean of all observed values
\* of column j when no user of c rated j (or c has no user)
C24_ClusterMeans ==
    (kind = "em" /\ self.is_fitted) =>
        /\ DOMAIN self.cluster_means = 0..(self.n_components - 1)
        /\ \A labels \in {ClusterLabels} :
           \A c \in 0..(self.n_components - 1) : \A j \in 1..n_cols(X_incomplete) :
               self.cluster_means[c][j] =
                   IF ObservedIn(AssignedTo(labels, c), j) # {}
                   THEN MeanOver(X_incomplete, ObservedIn(AssignedTo(labels, c), j), j)
                   ELSE MeanOver(X_incomplete,
                                 ObservedIn(1..n_rows(X_incomplete), j), j)

\* a fitted EMRecommender with a cluster without users and a cluster in which
\* only some users rated an item, the mean of their ratings differing from
\* the mean of the most-frequent-filled column
C24_Witness ==
    /\ kind = "em" /\ self.is_fitted
    /\ \E labels \in {ClusterLabels} :
        /\ \E c \in 0..(self.n_components - 1) : AssignedTo(labels, c) = {}
        /\ \E c \in 0..(self.n_components - 1) : \E j \in 1..n_cols(X_incomplete) :
               /\ ObservedIn(AssignedTo(labels, c), j) # {}
               /\ ObservedIn(AssignedTo(labels, c), j) # AssignedTo(labels, c)
               /\ MeanOver(ImputedFill(X_incomplete), AssignedTo(labels, c), j)
                      # self.cluster_means[c][j]


\* C25: MatrixFactorizationRecommender centres each user's row, in fit and in
\* predict, with the mean of that row's observed cells in the original data
\* (the user_mean fit stores, for the fitted matrix), and predict adds that
\* same mean back
C25_ObservedRowMean ==
    /\ (kind \in {"nmf", "svd"} /\ call.op = "fit" /\ call.status = "ok") =>
           /\ MFRowMeans(self.temp_imputer, call.X) = RowMeans(call.X)
           /\ MFRowMeans(self.temp_imputer, call.X) = self.user_mean
    /\ (kind \in {"nmf", "svd"} /\ call.op = "predict" /\ call.status = "ok") =>
           MFRowMeans(self.temp_imputer, call.X) = RowMeans(call.X)


\* the serving state is ready: the data are loaded and models holds the six
\* imputers, each fitted
Ready ==
    /\ X_incomplete # None
    /\ Len(models) = Len(Algorithms)
    /\ \A i \in 1..Len(models) : models[i].is_fitted

\* C26: in every reachable state of the web app is_initialized is true only if
\* X_incomplete is loaded and models holds all six imputers, each fitted; an
\* initialization that fails leaves is_initialized false; and a prediction
\* route handles a request, and predicts, only in a ready state
C26_ServingReadiness ==
    /\ [](/\ is_initialized => Ready
          /\ (\E t \in Threads : request[t] \in {"init:flag", "handle"}) => Ready
          /\ (response # None /\ response.predicted) => (is_initialized /\ Ready))
    /\ [][(\E t \in Threads : request[t] = "init:body" /\ request'[t] = "idle") =>
              (~is_initialized' /\ models' = models)]_vars

\* a prediction was answered after two requests raced through the
\* initialization
C26_Witness ==
    /\ is_initialized /\ Ready
    /\ init_runs > 1
    /\ response # None /\ response.predicted


\* the fields of a successful record that evaluate_model and the timing set
CoreKeys == {"model_name", "rmse", "mae", "r2_score", "n_predictions"}

\* r is a successful metrics record of the model called name
IsMetricsRecord(r, name) ==
    /\ CoreKeys \cup {"training_time"} \subseteq DOMAIN r
    /\ "error" \notin DOMAIN r
    /\ r.model_name = name
    /\ r.training_time = Elapsed

\* r is the sentinel record of a failure of the model called name
IsSentinel(r, name) ==
    /\ DOMAIN r = {"model_name", "rmse", "mae", "r2_score", "training_time", "error"}
    /\ r.model_name = name
    /\ r.rmse = Inf /\ r.mae = Inf /\ r.r2_score = NegInf
    /\ r.training_time = Int2Rat(0)

\* C27: after the loop of run_baseline_comparison results holds exactly one
\* record per configured imputer, in configuration order, each a successful
\* metrics record or a sentinel failure record; an exception raised by
\* get_model_info is swallowed and leaves the successful record a successful
\* one; and merging the diagnostics overwrites none of model_name, rmse, mae,
\* r2_score, n_predictions and training_time
C27_OneRecordPerImputer ==
    [][/\ pc' = "run:rank" =>
              /\ Len(results') = Len(RunModels)
              /\ \A i \in 1..Len(RunModels) :
                     \/ IsMetricsRecord(results'[i], RunModels[i].name)
                     \/ IsSentinel(results'[i], RunModels[i].name)
       /\ pc = "run:info" =>
              /\ Len(results') = Len(results) + 1
              /\ IsPrefix(results, results')
              /\ LET r == results'[Len(results')]
                     metrics == metrics_history[Len(metrics_history)]
                 IN  /\ IsMetricsRecord(r, RunModels[model_index].name)
                     /\ \A key \in CoreKeys : r[key] = metrics[key]
                     /\ call'.status # "ok" => DOMAIN r = CoreKeys \cup {"training_time"}
                     /\ call'.status = "ok" => "name" \in DOMAIN r]_vars

\* a finished run with a sentinel record, a successful record holding the model
\* info, and a successful record of a model whose get_model_info raised
C27_Witness ==
    /\ pc = "run:returned"
    /\ Len(results) = Len(RunModels)
    /\ \E i \in 1..Len(results) : IsSentinel(results[i], RunModels[i].name)
    /\ \E i \in 1..Len(results) :
           IsMetricsRecord(results[i], RunModels[i].name) /\ "name" \in DOMAIN results[i]
    /\ \E i \in 1..Len(results) :
           /\ IsMetricsRecord(results[i], RunModels[i].name)
           /\ DOMAIN results[i] = CoreKeys \cup {"training_time"}

====
